---------------------------- MODULE Spec2Model ----------------------------
(***************************************************************************)
(* Model of the MLS property search backend (src/index.js and              *)
(* src/routes/db.js):                                                      *)
(*   - the location matcher areaCitySubdivisionMatch with its lazily       *)
(*     loaded, process-wide locationLookupCache;                           *)
(*   - the detail enrichment loop formatListingsRaw, which caches photos   *)
(*     and virtual tours of a listing in mls_properties_details.           *)
(*                                                                         *)
(* JavaScript strings are sequences of one-character strings, so that      *)
(* toLowerCase, trim, startsWith, includes and the edit distance are       *)
(* computed character by character, as the code computes them.             *)
(***************************************************************************)
EXTENDS Integers, Sequences, FiniteSets, TLC

(***************************************************************************)
(* JavaScript values                                                       *)
(***************************************************************************)

\* null / undefined: a value that is no string of the alphabet.
Null == <<"<null>">>

\* A property an object literal does not set.
Undefined == <<"<undefined>">>

\* A value whose typeof is not 'string' (a number, an object) and is truthy.
NonString == <<"<number>">>

\* Boolean(v) for a string-or-null value: null, undefined and '' are falsy.
Truthy(v) == v # Null /\ v # Undefined /\ v # <<>>

\* typeof v === 'string'
IsString(v) == v # Null /\ v # Undefined /\ v # NonString

\* One character of String.prototype.toLowerCase.
LowerChar(c) ==
    CASE c = "A" -> "a"
      [] c = "B" -> "b"
      [] c = "C" -> "c"
      [] c = "D" -> "d"
      [] c = "L" -> "l"
      [] c = "P" -> "p"
      [] OTHER -> c

toLowerCase(s) == [i \in 1..Len(s) |-> LowerChar(s[i])]

IsSpace(c) == c = " "

RECURSIVE trimStart(_)
trimStart(s) ==
    IF s # <<>> /\ IsSpace(Head(s)) THEN trimStart(Tail(s)) ELSE s

RECURSIVE trimEnd(_)
trimEnd(s) ==
    IF s # <<>> /\ IsSpace(s[Len(s)]) THEN trimEnd(SubSeq(s, 1, Len(s) - 1)) ELSE s

\* String.prototype.trim
trim(s) == trimEnd(trimStart(s))

\* String.prototype.startsWith
startsWith(s, prefix) ==
    Len(prefix) <= Len(s) /\ SubSeq(s, 1, Len(prefix)) = prefix

\* String.prototype.includes
includes(s, part) ==
    \E i \in 0..(Len(s) - Len(part)) : SubSeq(s, i + 1, i + Len(part)) = part

Min2(a, b) == IF a <= b THEN a ELSE b

Max2(a, b) == IF a >= b THEN a ELSE b

\* [...new Set(arr)]: the distinct elements in order of first occurrence.
RECURSIVE uniqueOf(_)
uniqueOf(arr) ==
    IF arr = <<>> THEN <<>>
    ELSE LET init == uniqueOf(SubSeq(arr, 1, Len(arr) - 1))
             last == arr[Len(arr)]
         IN  IF \E i \in 1..Len(init) : init[i] = last THEN init
             ELSE Append(init, last)

\* arr.filter(Boolean)
filterBoolean(arr) == SelectSeq(arr, Truthy)

\* arr.map(r => r[fieldName])
fieldOf(r, fieldName) ==
    CASE fieldName = "city" -> r.city
      [] fieldName = "mlsareamajor" -> r.mlsareamajor
      [] fieldName = "subdivision" -> r.subdivision

mapField(arr, fieldName) == [i \in 1..Len(arr) |-> fieldOf(arr[i], fieldName)]

(***************************************************************************)
(* levenshteinDistance (src/index.js 551-578)                              *)
(***************************************************************************)

\* Row i of the distance matrix, dp[i][0..n], built left to right from row
\* i - 1 as the inner loop builds it; cur holds dp[i][0..Len(cur)-1].
RECURSIVE levFill(_, _, _, _, _)
levFill(str1, str2, i, prev, cur) ==
    IF Len(cur) = Len(str2) + 1 THEN cur
    ELSE LET j == Len(cur)
             cell == IF str1[i] = str2[j] THEN prev[j]
                     ELSE 1 + Min2(prev[j + 1], Min2(cur[j], prev[j]))
         IN  levFill(str1, str2, i, prev, Append(cur, cell))

RECURSIVE levRow(_, _, _)
levRow(str1, str2, i) ==
    IF i = 0 THEN [j \in 1..(Len(str2) + 1) |-> j - 1]
    ELSE levFill(str1, str2, i, levRow(str1, str2, i - 1), <<i>>)

\* dp[m][n]
levenshteinDistance(str1, str2) == levRow(str1, str2, Len(str1))[Len(str2) + 1]

(***************************************************************************)
(* areaCitySubdivisionMatch (src/index.js 645-893), the part that runs     *)
(* once the lookup data is at hand.  A confidence is kept in hundredths    *)
(* (1.0 is 100, 0.85 is 85).                                               *)
(***************************************************************************)

FUZZY_THRESHOLD == 3

\* The length from which the fuzzy branch of checkMatches is attempted.
FuzzyMinLength == 4

\* The tier of one value if the fuzzy branch were tried for inputs of any
\* length: the variant that C14 tells apart from the code.
tierOf_NoLengthGate(value, normalized) ==
    LET valueLower == toLowerCase(value)
    IN  IF valueLower = normalized THEN "exact"
        ELSE IF startsWith(valueLower, normalized) THEN "startsWith"
        ELSE IF includes(valueLower, normalized) \/ includes(normalized, valueLower)
             THEN "contains"
        ELSE IF levenshteinDistance(normalized, valueLower)
                  <= Min2(FUZZY_THRESHOLD, Len(valueLower) \div 3)
             THEN "fuzzy"
        ELSE "none"

\* The tier checkMatches files one value under: the first branch of its
\* if / else-if chain that accepts the value.
tierOf(value, normalized) ==
    LET valueLower == toLowerCase(value)
    IN  IF valueLower = normalized THEN "exact"
        ELSE IF startsWith(valueLower, normalized) THEN "startsWith"
        ELSE IF includes(valueLower, normalized) \/ includes(normalized, valueLower)
             THEN "contains"
        ELSE IF Len(normalized) >= FuzzyMinLength
                /\ levenshteinDistance(normalized, valueLower)
                     <= Min2(FUZZY_THRESHOLD, Len(valueLower) \div 3)
             THEN "fuzzy"
        ELSE "none"

\* The values of one field that checkMatches pushes to matches[tier][fieldName].
checkMatches(values, normalized, tier) ==
    LET hits == SelectSeq(values, LAMBDA v : Truthy(v) /\ tierOf(v, normalized) = tier)
    IN  IF tier = "fuzzy"
        THEN [i \in 1..Len(hits) |->
                [value |-> hits[i],
                 distance |-> levenshteinDistance(normalized, toLowerCase(hits[i]))]]
        ELSE hits

uniqueCities(lookupData) == uniqueOf(filterBoolean(mapField(lookupData, "city")))

uniqueAreas(lookupData) == uniqueOf(filterBoolean(mapField(lookupData, "mlsareamajor")))

uniqueSubdivisions(lookupData) == uniqueOf(filterBoolean(mapField(lookupData, "subdivision")))

\* matches[tier] after the three checkMatches calls.
matchesOf(lookupData, normalized, tier) ==
    [city |-> checkMatches(uniqueCities(lookupData), normalized, tier),
     mlsareamajor |-> checkMatches(uniqueAreas(lookupData), normalized, tier),
     subdivision |-> checkMatches(uniqueSubdivisions(lookupData), normalized, tier)]

findRecordsForValue(lookupData, fieldName, value) ==
    SelectSeq(lookupData,
              LAMBDA r : Truthy(fieldOf(r, fieldName))
                         /\ toLowerCase(fieldOf(r, fieldName)) = toLowerCase(value))

\* The null that areaCitySubdivisionMatch returns when nothing matches
\* (matchType "none").  In every result an array property that is not set
\* (matches, allMatches, possibleCities, possibleAreas) is the empty
\* sequence: the code sets matches and allMatches only to arrays of two or
\* more elements, and reads them only for their truthiness.
NoMatch ==
    [city |-> Null, mlsareamajor |-> Null, subdivision |-> Null,
     matchType |-> "none", matchedField |-> "none", matchedValue |-> Undefined,
     confidence |-> 0, ambiguous |-> FALSE, inputReceived |-> Undefined,
     matches |-> <<>>, allMatches |-> <<>>,
     possibleCities |-> <<>>, possibleAreas |-> <<>>]

\* buildResult if it took the parents of the first record that holds the
\* value: the variant that C26 tells apart from the code.
buildResult_FirstRecord(lookupData, userInput, matchType, fieldName, value, confidence, allMatches) ==
    LET records == findRecordsForValue(lookupData, fieldName, value)
        base == [city |-> Null, mlsareamajor |-> Null, subdivision |-> Null,
                 matchType |-> matchType, matchedField |-> fieldName,
                 matchedValue |-> value, confidence |-> confidence,
                 ambiguous |-> FALSE, inputReceived |-> userInput,
                 matches |-> <<>>, allMatches |-> <<>>,
                 possibleCities |-> <<>>, possibleAreas |-> <<>>]
        byField ==
            CASE fieldName = "subdivision" ->
                   [base EXCEPT !.subdivision = value,
                                !.city = records[1].city,
                                !.mlsareamajor = records[1].mlsareamajor]
              [] fieldName = "mlsareamajor" ->
                   [base EXCEPT !.mlsareamajor = value, !.city = records[1].city]
              [] fieldName = "city" -> [base EXCEPT !.city = value]
    IN  IF Len(allMatches) > 1
        THEN [byField EXCEPT !.ambiguous = TRUE, !.matches = allMatches]
        ELSE byField

\* allMatches = null (the default) is passed as the empty sequence: the code
\* reads it only in (allMatches && allMatches.length > 1).
buildResult(lookupData, userInput, matchType, fieldName, value, confidence, allMatches) ==
    LET records == findRecordsForValue(lookupData, fieldName, value)
        cities == uniqueOf(filterBoolean(mapField(records, "city")))
        areas == uniqueOf(filterBoolean(mapField(records, "mlsareamajor")))
        base == [city |-> Null, mlsareamajor |-> Null, subdivision |-> Null,
                 matchType |-> matchType, matchedField |-> fieldName,
                 matchedValue |-> value, confidence |-> confidence,
                 ambiguous |-> FALSE, inputReceived |-> userInput,
                 matches |-> <<>>, allMatches |-> <<>>,
                 possibleCities |-> <<>>, possibleAreas |-> <<>>]
        byField ==
            CASE fieldName = "subdivision" ->
                   [base EXCEPT
                      !.subdivision = value,
                      !.city = IF Len(cities) = 1 THEN cities[1] ELSE Null,
                      !.mlsareamajor = IF Len(areas) = 1 THEN areas[1] ELSE Null,
                      !.ambiguous = Len(cities) > 1 \/ Len(areas) > 1,
                      !.possibleCities =
                          IF Len(cities) > 1 \/ Len(areas) > 1 THEN cities ELSE <<>>,
                      !.possibleAreas =
                          IF Len(cities) > 1 \/ Len(areas) > 1 THEN areas ELSE <<>>]
              [] fieldName = "mlsareamajor" ->
                   [base EXCEPT
                      !.mlsareamajor = value,
                      !.city = IF Len(cities) = 1 THEN cities[1] ELSE Null,
                      !.ambiguous = Len(cities) > 1,
                      !.possibleCities = IF Len(cities) > 1 THEN cities ELSE <<>>]
              [] fieldName = "city" -> [base EXCEPT !.city = value]
    IN  IF Len(allMatches) > 1
        THEN [byField EXCEPT !.ambiguous = TRUE, !.matches = allMatches]
        ELSE byField

\* [...city, ...mlsareamajor, ...subdivision].map(v => ({field, value: v}))
pooled(m) ==
    [i \in 1..Len(m.city) |-> [field |-> "city", value |-> m.city[i]]]
    \o [i \in 1..Len(m.mlsareamajor) |-> [field |-> "mlsareamajor", value |-> m.mlsareamajor[i]]]
    \o [i \in 1..Len(m.subdivision) |-> [field |-> "subdivision", value |-> m.subdivision[i]]]

\* The same for the fuzzy tier, whose entries carry their distance.
pooledFuzzy(m) ==
    [i \in 1..Len(m.city) |->
        [field |-> "city", value |-> m.city[i].value, distance |-> m.city[i].distance]]
    \o [i \in 1..Len(m.mlsareamajor) |->
        [field |-> "mlsareamajor", value |-> m.mlsareamajor[i].value,
         distance |-> m.mlsareamajor[i].distance]]
    \o [i \in 1..Len(m.subdivision) |->
        [field |-> "subdivision", value |-> m.subdivision[i].value,
         distance |-> m.subdivision[i].distance]]

\* .sort((a, b) => a.distance - b.distance): Array.prototype.sort is stable,
\* and a fuzzy distance lies in 0..FUZZY_THRESHOLD.
RECURSIVE sortByDistanceFrom(_, _)
sortByDistanceFrom(arr, d) ==
    IF d > FUZZY_THRESHOLD THEN <<>>
    ELSE SelectSeq(arr, LAMBDA e : e.distance = d) \o sortByDistanceFrom(arr, d + 1)

\* The pool if it were left in the order of its fields: the variant that
\* C25 tells apart from the code.
sortByDistance_Unsorted(arr) == arr

sortByDistance(arr) == sortByDistanceFrom(arr, 0)

valuesOf(arr) == [i \in 1..Len(arr) |-> arr[i].value]

\* The confidence if a step of distance cost 0.2: the variant that C15
\* tells apart from the code.
fuzzyConfidence_Steeper(distance) == Max2(50, 100 - distance * 20)

\* Math.max(0.5, 1 - distance * 0.15), in hundredths.
fuzzyConfidence(distance) == Max2(50, 100 - distance * 15)

\* The object literal if it carried every pooled value: the variant that
\* C13 tells apart from the code.
cityAmbiguous_AllValues(userInput, matchType, confidence, all) ==
    [NoMatch EXCEPT
       !.matchType = matchType, !.matchedField = "city",
       !.confidence = confidence, !.ambiguous = TRUE,
       !.inputReceived = userInput,
       !.matches = valuesOf(all),
       !.allMatches = all]

\* The object literal returned when several startsWith / contains hits
\* include at least one city.
cityAmbiguous(userInput, matchType, confidence, all) ==
    [NoMatch EXCEPT
       !.matchType = matchType, !.matchedField = "city",
       !.confidence = confidence, !.ambiguous = TRUE,
       !.inputReceived = userInput,
       !.matches = valuesOf(SelectSeq(all, LAMBDA e : e.field = "city")),
       !.allMatches = all]

\* The partial tiers if a single hit got the confidence of several: the
\* variant that C12 tells apart from the code.
partialTier_OneConfidence(lookupData, userInput, matchType, all, single, several) ==
    IF Len(all) = 1
    THEN buildResult(lookupData, userInput, matchType, all[1].field, all[1].value, several, <<>>)
    ELSE IF SelectSeq(all, LAMBDA e : e.field = "city") # <<>>
    THEN cityAmbiguous(userInput, matchType, several, all)
    ELSE buildResult(lookupData, userInput, matchType, all[1].field, all[1].value,
                     several, valuesOf(all))

\* The partial tiers if one city among several hits were a single match on
\* the city: the variant that C24 tells apart from the code.
partialTier_OneCitySingle(lookupData, userInput, matchType, all, single, several) ==
    LET cityMatches == SelectSeq(all, LAMBDA e : e.field = "city")
    IN  IF Len(all) = 1
        THEN buildResult(lookupData, userInput, matchType, all[1].field, all[1].value,
                         single, <<>>)
        ELSE IF Len(cityMatches) = 1
        THEN buildResult(lookupData, userInput, matchType, "city", cityMatches[1].value,
                         single, <<>>)
        ELSE IF cityMatches # <<>>
        THEN cityAmbiguous(userInput, matchType, several, all)
        ELSE buildResult(lookupData, userInput, matchType, all[1].field, all[1].value,
                         several, valuesOf(all))

\* startsWith and contains tiers (src/index.js 805-870) share their shape.
partialTier(lookupData, userInput, matchType, all, single, several) ==
    IF Len(all) = 1
    THEN buildResult(lookupData, userInput, matchType, all[1].field, all[1].value, single, <<>>)
    ELSE IF SelectSeq(all, LAMBDA e : e.field = "city") # <<>>
    THEN cityAmbiguous(userInput, matchType, several, all)
    ELSE buildResult(lookupData, userInput, matchType, all[1].field, all[1].value,
                     several, valuesOf(all))

\* The exact tier if it kept only its first hit: the variant that C10
\* tells apart from the code.
exactTier_FirstHitOnly(lookupData, userInput, fieldName, hits) ==
    buildResult(lookupData, userInput, "exact", fieldName, hits[1], 100, <<>>)

\* The exact tier for one field (src/index.js 782-803).
exactTier(lookupData, userInput, fieldName, hits) ==
    buildResult(lookupData, userInput, "exact", fieldName, hits[1], 100,
                IF Len(hits) = 1 THEN <<>> ELSE hits)

\* The guard if it did not trim: the variant that C11 tells apart from the
\* code.
invalidInput_NoTrim(userInput) ==
    \/ ~Truthy(userInput)
    \/ ~IsString(userInput)

\* if (!userInput || typeof userInput !== 'string' || userInput.trim() === '')
invalidInput(userInput) ==
    \/ ~Truthy(userInput)
    \/ ~IsString(userInput)
    \/ trim(userInput) = <<>>

\* The matcher if it looked at the substring hits before the prefix hits:
\* the variant that C22 tells apart from the code.
matchLocation_ContainsFirst(userInput, lookupData) ==
    LET normalized == trim(toLowerCase(userInput))
        exact == matchesOf(lookupData, normalized, "exact")
        allStartsWith == pooled(matchesOf(lookupData, normalized, "startsWith"))
        allContains == pooled(matchesOf(lookupData, normalized, "contains"))
        allFuzzy == sortByDistance(pooledFuzzy(matchesOf(lookupData, normalized, "fuzzy")))
    IN  IF exact.subdivision # <<>>
        THEN exactTier(lookupData, userInput, "subdivision", exact.subdivision)
        ELSE IF exact.mlsareamajor # <<>>
        THEN exactTier(lookupData, userInput, "mlsareamajor", exact.mlsareamajor)
        ELSE IF exact.city # <<>>
        THEN exactTier(lookupData, userInput, "city", exact.city)
        ELSE IF allContains # <<>>
        THEN partialTier(lookupData, userInput, "contains", allContains, 80, 75)
        ELSE IF allStartsWith # <<>>
        THEN partialTier(lookupData, userInput, "startsWith", allStartsWith, 90, 85)
        ELSE IF allFuzzy # <<>>
        THEN buildResult(lookupData, userInput, "fuzzy", allFuzzy[1].field, allFuzzy[1].value,
                         fuzzyConfidence(allFuzzy[1].distance),
                         IF Len(allFuzzy) = 1 THEN <<>>
                         ELSE [i \in 1..Len(allFuzzy) |->
                                 [value |-> allFuzzy[i].value, field |-> allFuzzy[i].field,
                                  distance |-> allFuzzy[i].distance]])
        ELSE NoMatch

\* The matcher if its exact tier looked at the fields from the broadest
\* to the most specific: the variant that C21 tells apart from the code.
matchLocation_CityFirst(userInput, lookupData) ==
    LET normalized == trim(toLowerCase(userInput))
        exact == matchesOf(lookupData, normalized, "exact")
        allStartsWith == pooled(matchesOf(lookupData, normalized, "startsWith"))
        allContains == pooled(matchesOf(lookupData, normalized, "contains"))
        allFuzzy == sortByDistance(pooledFuzzy(matchesOf(lookupData, normalized, "fuzzy")))
    IN  IF exact.city # <<>>
        THEN exactTier(lookupData, userInput, "city", exact.city)
        ELSE IF exact.mlsareamajor # <<>>
        THEN exactTier(lookupData, userInput, "mlsareamajor", exact.mlsareamajor)
        ELSE IF exact.subdivision # <<>>
        THEN exactTier(lookupData, userInput, "subdivision", exact.subdivision)
        ELSE IF allStartsWith # <<>>
        THEN partialTier(lookupData, userInput, "startsWith", allStartsWith, 90, 85)
        ELSE IF allContains # <<>>
        THEN partialTier(lookupData, userInput, "contains", allContains, 80, 75)
        ELSE IF allFuzzy # <<>>
        THEN buildResult(lookupData, userInput, "fuzzy", allFuzzy[1].field, allFuzzy[1].value,
                         fuzzyConfidence(allFuzzy[1].distance),
                         IF Len(allFuzzy) = 1 THEN <<>>
                         ELSE [i \in 1..Len(allFuzzy) |->
                                 [value |-> allFuzzy[i].value, field |-> allFuzzy[i].field,
                                  distance |-> allFuzzy[i].distance]])
        ELSE NoMatch

\* areaCitySubdivisionMatch from line 653 on, given the lookup data that
\* loadLocationLookupData returned.
matchLocation(userInput, lookupData) ==
    LET normalized == trim(toLowerCase(userInput))
        exact == matchesOf(lookupData, normalized, "exact")
        allStartsWith == pooled(matchesOf(lookupData, normalized, "startsWith"))
        allContains == pooled(matchesOf(lookupData, normalized, "contains"))
        allFuzzy == sortByDistance(pooledFuzzy(matchesOf(lookupData, normalized, "fuzzy")))
    IN  IF exact.subdivision # <<>>
        THEN exactTier(lookupData, userInput, "subdivision", exact.subdivision)
        ELSE IF exact.mlsareamajor # <<>>
        THEN exactTier(lookupData, userInput, "mlsareamajor", exact.mlsareamajor)
        ELSE IF exact.city # <<>>
        THEN exactTier(lookupData, userInput, "city", exact.city)
        ELSE IF allStartsWith # <<>>
        THEN partialTier(lookupData, userInput, "startsWith", allStartsWith, 90, 85)
        ELSE IF allContains # <<>>
        THEN partialTier(lookupData, userInput, "contains", allContains, 80, 75)
        ELSE IF allFuzzy # <<>>
        THEN buildResult(lookupData, userInput, "fuzzy", allFuzzy[1].field, allFuzzy[1].value,
                         fuzzyConfidence(allFuzzy[1].distance),
                         IF Len(allFuzzy) = 1 THEN <<>>
                         ELSE [i \in 1..Len(allFuzzy) |->
                                 [value |-> allFuzzy[i].value, field |-> allFuzzy[i].field,
                                  distance |-> allFuzzy[i].distance]])
        ELSE NoMatch

(***************************************************************************)
(* The location filter of fetchProperties (src/index.js 981-1018)          *)
(*                                                                         *)
(* The text appended to the query is kept as its parts: the kind of        *)
(* predicate, the columns it constrains, and the text or the list of       *)
(* values it compares them with.                                           *)
(***************************************************************************)

\* Nothing is appended to the query.
NoPredicate == [kind |-> "none", columns |-> {}, text |-> <<>>, values |-> <<>>]

\* AND (c1 LIKE '%text%' OR c2 LIKE '%text%' ...)
LikePredicate(columns, text) ==
    [kind |-> "like", columns |-> columns, text |-> text, values |-> <<>>]

\* AND column IN ('v1', 'v2', ...)
InPredicate(column, values) ==
    [kind |-> "in", columns |-> {column}, text |-> <<>>, values |-> values]

\* AND column = 'text'
EqualsPredicate(column, text) ==
    [kind |-> "equals", columns |-> {column}, text |-> text, values |-> <<>>]

\* The one key of allIncludeLocations (index.js 983-985) and the text of
\* its LIKE.
AllLaPaz == <<"A", "l", "l", " ", "L", "a", " ", "P", "a", "z">>

LaPaz == <<"L", "a", " ", "P", "a", "z">>

\* `${c}` of an object: the text "[object Object]", kept as one symbol.
ObjectObject == <<"[object Object]">>

\* The column of mls_properties for a field of the lookup data.
columnOf(fieldName) == IF fieldName = "subdivision" THEN "subdivisionname" ELSE fieldName

\* The quoted list of index.js 994-1003.  The matches of the fuzzy tier
\* are objects {value, field, distance}, those of the other tiers strings:
\* the city and the area branch interpolate the element itself, the
\* subdivision branch takes (s.value || s).
inList(locationMatch) ==
    IF locationMatch.matchType = "fuzzy"
    THEN IF locationMatch.matchedField \in {"city", "mlsareamajor"}
         THEN [i \in 1..Len(locationMatch.matches) |-> ObjectObject]
         ELSE [i \in 1..Len(locationMatch.matches) |-> locationMatch.matches[i].value]
    ELSE locationMatch.matches

\* The filter if no location text were special: the variant that C30
\* tells apart from the code.
locationFilter_NoWildcard(location, locationMatch) ==
    IF ~Truthy(location) THEN NoPredicate
    ELSE IF locationMatch.matchType = "none"
    THEN LikePredicate({"city", "mlsareamajor", "subdivisionname"}, location)
    ELSE IF locationMatch.ambiguous /\ locationMatch.matches # <<>>
    THEN InPredicate(columnOf(locationMatch.matchedField), inList(locationMatch))
    ELSE IF Truthy(locationMatch.subdivision)
    THEN EqualsPredicate("subdivisionname", locationMatch.subdivision)
    ELSE IF Truthy(locationMatch.mlsareamajor)
    THEN EqualsPredicate("mlsareamajor", locationMatch.mlsareamajor)
    ELSE IF Truthy(locationMatch.city)
    THEN EqualsPredicate("city", locationMatch.city)
    ELSE NoPredicate

\* The filter if a clear match were filtered by its broadest populated
\* field first: the variant that C18 tells apart from the code.
locationFilter_CityFirst(location, locationMatch) ==
    IF ~Truthy(location) THEN NoPredicate
    ELSE IF location = AllLaPaz THEN LikePredicate({"mlsareamajor"}, LaPaz)
    ELSE IF locationMatch.matchType = "none"
    THEN LikePredicate({"city", "mlsareamajor", "subdivisionname"}, location)
    ELSE IF locationMatch.ambiguous /\ locationMatch.matches # <<>>
    THEN InPredicate(columnOf(locationMatch.matchedField), inList(locationMatch))
    ELSE IF Truthy(locationMatch.city)
    THEN EqualsPredicate("city", locationMatch.city)
    ELSE IF Truthy(locationMatch.mlsareamajor)
    THEN EqualsPredicate("mlsareamajor", locationMatch.mlsareamajor)
    ELSE IF Truthy(locationMatch.subdivision)
    THEN EqualsPredicate("subdivisionname", locationMatch.subdivision)
    ELSE NoPredicate

\* index.js 981-1018: what the location of the request and the result of
\* areaCitySubdivisionMatch (NoMatch for null) add to the listing query.
locationFilter(location, locationMatch) ==
    IF ~Truthy(location) THEN NoPredicate
    ELSE IF location = AllLaPaz THEN LikePredicate({"mlsareamajor"}, LaPaz)
    ELSE IF locationMatch.matchType = "none"
    THEN LikePredicate({"city", "mlsareamajor", "subdivisionname"}, location)
    ELSE IF locationMatch.ambiguous /\ locationMatch.matches # <<>>
    THEN InPredicate(columnOf(locationMatch.matchedField), inList(locationMatch))
    ELSE IF Truthy(locationMatch.subdivision)
    THEN EqualsPredicate("subdivisionname", locationMatch.subdivision)
    ELSE IF Truthy(locationMatch.mlsareamajor)
    THEN EqualsPredicate("mlsareamajor", locationMatch.mlsareamajor)
    ELSE IF Truthy(locationMatch.city)
    THEN EqualsPredicate("city", locationMatch.city)
    ELSE NoPredicate

(***************************************************************************)
(* Values of the detail cache (src/routes/db.js)                           *)
(*                                                                         *)
(* A photo or tour list is an array of items 1..9; a value carries its     *)
(* JavaScript type: "object" (an array), "string" (JSON text, a sequence   *)
(* of characters), "null", "undefined".                                    *)
(***************************************************************************)

JsArray(a) == [t |-> "object", v |-> a]

JsString(chars) == [t |-> "string", v |-> chars]

JsNull == [t |-> "null", v |-> <<>>]

JsUndefined == [t |-> "undefined", v |-> <<>>]

EmptyArray == JsArray(<<>>)

\* An exception in place of a value: what an await that rejects, or a call
\* that throws, hands to the code around it.
Thrown == [t |-> "thrown", v |-> <<>>]

Digits == <<"1", "2", "3", "4", "5", "6", "7", "8", "9">>

RECURSIVE joinItems(_)
joinItems(a) ==
    IF a = <<>> THEN <<>>
    ELSE IF Len(a) = 1 THEN <<Digits[a[1]]>>
    ELSE <<Digits[a[1]], ",">> \o joinItems(Tail(a))

\* JSON.stringify of an array: "[1,2]"
JSONstringify(x) == JsString(<<"[">> \o joinItems(x.v) \o <<"]">>)

\* JSON.parse of the text of an array; also the cast $n::JSONB.
JSONparse(text) ==
    LET items == SelectSeq(text.v, LAMBDA c : c \notin {"[", "]", ","})
    IN  JsArray([k \in 1..Len(items) |-> CHOOSE n \in 1..9 : Digits[n] = items[k]])

\* Array.isArray
isArray(x) == x.t = "object"

\* x.length of an array or a string
lengthOf(x) == Len(x.v)

\* checkPhotoTourResFromDb (db.js 617-627)
checkPhotoTourResFromDb(dataRaw) ==
    IF dataRaw.t = "string" THEN JSONparse(dataRaw)
    ELSE IF dataRaw.t = "object" THEN dataRaw
    ELSE EmptyArray

\* What a Spark API call settles to: a rejection (network error, non-2xx
\* status), or a response with D.Results.
ApiFailure == [failed |-> TRUE, Results |-> JsUndefined]

ApiResponse(results) == [failed |-> FALSE, Results |-> results]

\* getListingPhotos if it had no catch block: the variant that C6 tells
\* apart from the code.
getListingPhotos_NoCatch(settled) ==
    IF settled.failed THEN Thrown
    ELSE IF settled.Results.t = "object" THEN settled.Results
    ELSE EmptyArray

\* getListingPhotos (db.js 102-123): response.data.D.Results || [], and []
\* from the catch block.
getListingPhotos(settled) ==
    IF settled.failed THEN EmptyArray
    ELSE IF settled.Results.t = "object" THEN settled.Results
    ELSE EmptyArray

\* getVrTours (db.js 148-169)
getVrTours(settled) ==
    IF settled.failed THEN EmptyArray
    ELSE IF settled.Results.t = "object" THEN settled.Results
    ELSE EmptyArray

\* getOpenHouses (db.js 182-203); nothing calls it.
getOpenHouses(settled) ==
    IF settled.failed THEN EmptyArray
    ELSE IF settled.Results.t = "object" THEN settled.Results
    ELSE EmptyArray

\* A row of mls_properties_details without its mlsid; a timestamp column is
\* "NULL" or "NOW".
NullRow ==
    [photos |-> JsNull, virtual_tours |-> JsNull, open_houses |-> JsNull,
     time_entered |-> "NULL", photos_edited |-> "NULL",
     virtual_tours_edited |-> "NULL", open_houses_edited |-> "NULL"]

\* SET <field> = $1::JSONB, <updated_field> = NOW()
setColumns(row, field, updated_field, dataForDb) ==
    LET jsonb == JSONparse(dataForDb)
        r1 == CASE field = "photos" -> [row EXCEPT !.photos = jsonb]
                [] field = "virtual_tours" -> [row EXCEPT !.virtual_tours = jsonb]
                [] field = "open_houses" -> [row EXCEPT !.open_houses = jsonb]
    IN  CASE updated_field = "photos_edited" -> [r1 EXCEPT !.photos_edited = "NOW"]
          [] updated_field = "virtual_tours_edited" -> [r1 EXCEPT !.virtual_tours_edited = "NOW"]
          [] updated_field = "open_houses_edited" -> [r1 EXCEPT !.open_houses_edited = "NOW"]

\* The statement if its INSERT stored nothing: the variant that C2 tells
\* apart from the code.
detailsStatement_NoInsert(rows, field, updated_field, dataToInsert, mode) ==
    LET dataForDb == JSONstringify(dataToInsert)
    IN  CASE mode = "update" ->
               {setColumns(row, field, updated_field, dataForDb) : row \in rows}
          [] OTHER -> rows

\* The rows of one mlsid after the statement of insertPhotosOpensToursToDb
\* (db.js 654-677) has run.  The table's definition is not part of the
\* program: the rows of an mlsid are a set, an INSERT adds to it, and a
\* store that refuses a second row does so by failing the statement.
detailsStatement(rows, field, updated_field, dataToInsert, mode) ==
    LET dataForDb == JSONstringify(dataToInsert)
    IN  CASE mode = "insert" ->
               rows \cup {setColumns([NullRow EXCEPT !.time_entered = "NOW"],
                                     field, updated_field, dataForDb)}
          [] mode = "update" ->
               {setColumns(row, field, updated_field, dataForDb) : row \in rows}
          [] OTHER -> rows

\* insertPhotosOpensToursToDb if it had no catch block: the variant that
\* C7 tells apart from the code.
insertPhotosOpensToursToDb_NoCatch(statementFailed, rowCount) ==
    IF statementFailed THEN [thrown |-> TRUE, rowCount |-> 0]
    ELSE [thrown |-> FALSE, rowCount |-> rowCount]

\* What insertPhotosOpensToursToDb returns (db.js 677-683): the rowCount of
\* the statement, or 0 from its catch block when the statement failed.
insertPhotosOpensToursToDb(statementFailed, rowCount) ==
    IF statementFailed THEN [thrown |-> FALSE, rowCount |-> 0]
    ELSE [thrown |-> FALSE, rowCount |-> rowCount]

\* The switch if a "vTours" took its second case: the variant that C28
\* tells apart from the code.
tourDispatch_SecondCase(mode) ==
    CASE mode = "vTours" ->
           [api |-> "virtualtours", fieldToUpdate |-> "open_houses",
            fieldTimestampToUpdate |-> "open_houses_edited"]
      [] OTHER ->
           [api |-> "none", fieldToUpdate |-> "none", fieldTimestampToUpdate |-> "none"]

\* The switch of checkTourAndOpenDetails (db.js 578-590): the provider
\* operation and the columns for a mode.  The label of the second case
\* repeats "vTours", so the first case takes every "vTours" and no mode
\* reaches the second.
tourDispatch(mode) ==
    CASE mode = "vTours" ->
           [api |-> "virtualtours", fieldToUpdate |-> "virtual_tours",
            fieldTimestampToUpdate |-> "virtual_tours_edited"]
      [] OTHER ->
           [api |-> "none", fieldToUpdate |-> "none", fieldTimestampToUpdate |-> "none"]

(***************************************************************************)
(* State                                                                   *)
(***************************************************************************)

VARIABLES
    locationLookupCache,  \* index.js 539: null, or the rows of the one load
    mlsProperties,        \* the backing store's distinct (city, area, subdivision) rows
    resolveCall,          \* each caller's call of areaCitySubdivisionMatch
    loadQueries,          \* how many lookup queries loadLocationLookupData has issued
    dbErrors,             \* how many store operations have failed so far
    details,              \* mls_properties_details: the rows of each mlsid
    search,               \* each search request: fetchProperties from line 1050 on
    apiErrors,            \* how many Spark API calls have failed so far
    insertsIssued,        \* how many INSERTs have been issued for each mlsid
    listingsReturned      \* how many listing rows the listing queries have returned

geoVars == <<locationLookupCache, mlsProperties, resolveCall, loadQueries>>

enrichVars == <<details, search, apiErrors, insertsIssued, listingsReturned>>

vars == <<locationLookupCache, mlsProperties, resolveCall, loadQueries, dbErrors,
          details, search, apiErrors, insertsIssued, listingsReturned>>

(***************************************************************************)
(* The geography of the backing store                                      *)
(***************************************************************************)

\* Place names: one name, a second spelling of it that differs in case
\* only, and a name one edit away from it.
Name_abcd == <<"a", "b", "c", "d">>

Name_ABCD == <<"A", "B", "C", "D">>

Name_abdd == <<"a", "b", "d", "d">>

Names == {Name_abcd, Name_ABCD, Name_abdd}

\* A longer name, and the area that the "All La Paz" listings are in.
Name_cdcdcd == <<"c", "d", "c", "d", "c", "d">>

Name_LaPaz == <<"L", "a", " ", "P", "a", "z">>

\* A subdivision one letter away from the longer name.
Name_cdcdcc == <<"c", "d", "c", "d", "c", "c">>

\* The rows SELECT DISTINCT city, mlsareamajor, subdivisionname ... WHERE
\* city IS NOT NULL OR mlsareamajor IS NOT NULL OR subdivisionname IS NOT NULL
\* can return.
GeoRecords ==
    ( {[city |-> c, mlsareamajor |-> a, subdivision |-> s] :
          c \in Names \cup {Null}, a \in Names \cup {Null}, s \in Names \cup {Null}}
      \ {[city |-> Null, mlsareamajor |-> Null, subdivision |-> Null]} )
    \cup {[city |-> c, mlsareamajor |-> Null, subdivision |-> Name_cdcdcd] :
             c \in {Null, Name_abcd}}
    \cup {[city |-> Name_cdcdcd, mlsareamajor |-> Null, subdivision |-> Null],
          [city |-> Name_cdcdcd, mlsareamajor |-> Null, subdivision |-> Name_cdcdcc],
          [city |-> Null, mlsareamajor |-> Name_LaPaz, subdivision |-> Null],
          [city |-> Name_LaPaz, mlsareamajor |-> Name_LaPaz, subdivision |-> Null]}

\* The most rows the lookup query returns in the model.
MaxRows == 2

charCode(c) ==
    CASE c = " " -> 32
      [] c = "A" -> 65
      [] c = "B" -> 66
      [] c = "C" -> 67
      [] c = "D" -> 68
      [] c = "L" -> 76
      [] c = "P" -> 80
      [] c = "a" -> 97
      [] c = "b" -> 98
      [] c = "c" -> 99
      [] c = "d" -> 100
      [] c = "l" -> 108
      [] c = "p" -> 112
      [] c = "z" -> 122
      [] OTHER -> 120

\* ORDER BY on a text column, in code-point order, NULLs last.
RECURSIVE textLess(_, _)
textLess(x, y) ==
    IF x = Null THEN FALSE
    ELSE IF y = Null THEN TRUE
    ELSE IF y = <<>> THEN FALSE
    ELSE IF x = <<>> THEN TRUE
    ELSE IF Head(x) = Head(y) THEN textLess(Tail(x), Tail(y))
    ELSE charCode(Head(x)) < charCode(Head(y))

\* ORDER BY city, mlsareamajor, subdivisionname
rowLess(r1, r2) ==
    IF r1.city # r2.city THEN textLess(r1.city, r2.city)
    ELSE IF r1.mlsareamajor # r2.mlsareamajor THEN textLess(r1.mlsareamajor, r2.mlsareamajor)
    ELSE textLess(r1.subdivision, r2.subdivision)

RECURSIVE orderBy(_)
orderBy(rows) ==
    IF rows = {} THEN <<>>
    ELSE LET first == CHOOSE r \in rows : \A q \in rows \ {r} : rowLess(r, q)
         IN  <<first>> \o orderBy(rows \ {first})

RECURSIVE setsUpTo(_, _)
setsUpTo(S, k) ==
    IF k = 0 THEN {{}}
    ELSE LET smaller == setsUpTo(S, k - 1)
         IN  smaller \cup {T \cup {x} : T \in smaller, x \in S}

\* What the lookup query of loadLocationLookupData (index.js 596-603) can
\* return: distinct rows, ordered.
LookupResults == {orderBy(T) : T \in setsUpTo(GeoRecords, MaxRows)}

(***************************************************************************)
(* loadLocationLookupData and areaCitySubdivisionMatch as steps            *)
(***************************************************************************)

\* Concurrent callers of areaCitySubdivisionMatch.
NumCallers == 2

Callers == 1..NumCallers

NullCache == [isNull |-> TRUE, rows |-> <<>>]

\* A call of areaCitySubdivisionMatch, and what fetchProperties makes of it
\* when the call is the one of index.js 944: queries counts the lookup
\* queries the call has issued, filter is the location predicate built from
\* its result, status is 500 once its exception has reached the endpoint.
IdleCall ==
    [pc |-> "idle", userInput |-> Null, rows |-> <<>>, failed |-> FALSE,
     lookupData |-> <<>>, result |-> NoMatch, queries |-> 0,
     filter |-> NoPredicate, status |-> 0]

\* The most store operations that fail in one run of the model.
MaxDbErrors == 1

CanCall(c) == resolveCall[c].pc \in {"idle", "returned", "threw"}

\* areaCitySubdivisionMatch returns result (index.js 650, 783-892), and
\* fetchProperties builds the location filter from it (index.js 981-1018).
answered(call, result) ==
    [call EXCEPT !.pc = "returned", !.result = result,
                 !.filter = locationFilter(call.userInput, result)]


\* index.js 648-651: empty or invalid input returns null at once.
ResolveInvalid(c, input) ==
    /\ CanCall(c)
    /\ invalidInput(input)
    /\ resolveCall' = [resolveCall EXCEPT ![c] =
           answered([IdleCall EXCEPT !.userInput = input], NoMatch)]
    /\ UNCHANGED <<locationLookupCache, mlsProperties, loadQueries, dbErrors, enrichVars>>

\* index.js 654 with 590-592: the cache is set, the call goes on with it.
ResolveCached(c, input) ==
    /\ CanCall(c)
    /\ ~invalidInput(input)
    /\ ~locationLookupCache.isNull
    /\ resolveCall' = [resolveCall EXCEPT ![c] =
           answered([IdleCall EXCEPT !.userInput = input,
                                     !.lookupData = locationLookupCache.rows],
                    matchLocation(input, locationLookupCache.rows))]
    /\ UNCHANGED <<locationLookupCache, mlsProperties, loadQueries, dbErrors, enrichVars>>

\* The same step if a cache of no rows counted as unpopulated: the variant
\* that C29 tells apart from the code.
ResolveLoad_EmptyIsNull(c, input) ==
    /\ CanCall(c)
    /\ ~invalidInput(input)
    /\ locationLookupCache.isNull \/ locationLookupCache.rows = <<>>
    /\ resolveCall' = [resolveCall EXCEPT ![c] =
           [IdleCall EXCEPT !.pc = "loading", !.userInput = input, !.queries = 1]]
    /\ loadQueries' = loadQueries + 1
    /\ UNCHANGED <<locationLookupCache, mlsProperties, dbErrors, enrichVars>>

\* index.js 654 with 590-603: the cache is null, the lookup query is issued
\* and the call waits for it.
ResolveLoad(c, input) ==
    /\ CanCall(c)
    /\ ~invalidInput(input)
    /\ locationLookupCache.isNull
    /\ resolveCall' = [resolveCall EXCEPT ![c] =
           [IdleCall EXCEPT !.pc = "loading", !.userInput = input, !.queries = 1]]
    /\ loadQueries' = loadQueries + 1
    /\ UNCHANGED <<locationLookupCache, mlsProperties, dbErrors, enrichVars>>

\* The store runs the lookup query: it reads the rows it holds then.
LookupQueryRuns(c) ==
    /\ resolveCall[c].pc = "loading"
    /\ resolveCall' = [resolveCall EXCEPT ![c].pc = "settled", ![c].rows = mlsProperties]
    /\ UNCHANGED <<locationLookupCache, mlsProperties, loadQueries, dbErrors, enrichVars>>

\* The store fails the lookup query.
LookupQueryFails(c) ==
    /\ resolveCall[c].pc = "loading"
    /\ dbErrors < MaxDbErrors
    /\ dbErrors' = dbErrors + 1
    /\ resolveCall' = [resolveCall EXCEPT ![c].pc = "settled", ![c].failed = TRUE]
    /\ UNCHANGED <<locationLookupCache, mlsProperties, loadQueries, enrichVars>>

\* The call when its lookup query has succeeded (index.js 604-607,
\* 656-893 and 981-1018).
loadReturned(call) ==
    answered([call EXCEPT !.lookupData = call.rows],
             matchLocation(call.userInput, call.rows))

\* The call if a failed load were answered with no match: the variant that
\* C20 tells apart from the code.
loadThrew_Fallback(call) == answered(call, NoMatch)

\* The call when its lookup query has failed: nothing catches the rejection
\* in loadLocationLookupData or areaCitySubdivisionMatch, the await of
\* index.js 944 stands before the try of fetchProperties, and the endpoint
\* answers 500 (index.js 425-428).
loadThrew(call) == [call EXCEPT !.pc = "threw", !.status = 500]

\* index.js 603-607 and 656-893: await dbClient.query(query) settles.  A
\* rejection leaves loadLocationLookupData and areaCitySubdivisionMatch as
\* an exception; a result is assigned to the cache and matched against.
LoadSettles(c) ==
    /\ resolveCall[c].pc = "settled"
    /\ IF resolveCall[c].failed
       THEN /\ resolveCall' = [resolveCall EXCEPT ![c] = loadThrew(resolveCall[c])]
            /\ UNCHANGED locationLookupCache
       ELSE /\ locationLookupCache' = [isNull |-> FALSE, rows |-> resolveCall[c].rows]
            /\ resolveCall' = [resolveCall EXCEPT ![c] = loadReturned(resolveCall[c])]
    /\ UNCHANGED <<mlsProperties, loadQueries, dbErrors, enrichVars>>

(***************************************************************************)
(* formatListingsRaw (db.js 455-535) and its callers as steps              *)
(*                                                                         *)
(* A step is the code between two awaits: it starts when the awaited       *)
(* operation settles and ends where the next one is awaited.  Between      *)
(* awaits only the request's own objects are touched, so the operation's   *)
(* effect on the store and the code that follows it are one step.          *)
(***************************************************************************)

\* The listings of mls_properties that searches return.
NumListings == 2

ListingIds == 1..NumListings

\* The rows one listing query returns at most (LIMIT 50 in the code).
MaxResults == 2

\* Concurrent search requests.
NumSearches == 2

Searches == 1..NumSearches

\* The most Spark API calls that fail in one run of the model.
MaxApiErrors == 1

\* The most listing rows that all listing queries of one run of the model
\* return together.
MaxListingsReturned == 2

\* What is recorded about the enrichment of one listing in one request.
NoLog ==
    [found |-> FALSE, row |-> NullRow,
     calls |-> [photos |-> 0, virtualtours |-> 0, openhouses |-> 0],
     apiFailed |-> {}, inserts |-> 0, updates |-> {}, writeFailed |-> {},
     fetched |-> [photos |-> JsUndefined, virtualtours |-> JsUndefined]]

\* photoscount of a listing: the first listing declares no photos, the
\* others declare two.  Nothing in formatListingsRaw reads the column.
photoscountOf(id) == IF id = 1 THEN 0 ELSE 2

\* A row of the listing query, as formatListingsRaw receives it: the columns
\* it reads, and the properties it sets, not yet set.
ListingRow(id, vt, oh) ==
    [id |-> id, photoscount |-> photoscountOf(id),
     virtualtourscount |-> vt, openhousescount |-> oh,
     imageUrl |-> JsUndefined, photos |-> JsUndefined, vTours |-> JsUndefined,
     vrTours |-> JsUndefined, openHouses |-> JsUndefined, log |-> NoLog]

\* openhousescount of a listing: the first listing has an open house, the
\* others have none.  Nothing in formatListingsRaw reads the column.
openhousescountOf(id) == IF id = 1 THEN 1 ELSE 0

\* The rows for the listings first..NumListings that a query can return, in
\* the order of ORDER BY currentpricepublic DESC: a listing with a smaller
\* id has the higher price.
RECURSIVE listingSeqs(_)
listingSeqs(first) ==
    IF first > NumListings THEN {<<>>}
    ELSE LET rest == listingSeqs(first + 1)
         IN  rest \cup {<<ListingRow(first, vt, openhousescountOf(first))>> \o q :
                           vt \in {0, 1}, q \in rest}

\* result.rows of the listing query: up to MaxResults listings, each with
\* the virtualtourscount mls_properties holds for it at that time.
ListingResults == {q \in listingSeqs(1) : Len(q) <= MaxResults}

\* D.Results of the photos and of the virtual tours operation.
PhotoResults == {EmptyArray, JsArray(<<1>>), JsArray(<<2, 3>>)}

TourResults == {EmptyArray, JsArray(<<7>>), JsArray(<<8>>)}

IdleSearch ==
    [pc |-> "idle", status |-> 0, error |-> "none", listingData |-> <<>>, i |-> 0,
     photoResult |-> <<>>, photos |-> EmptyArray, detailsInDb |-> FALSE,
     detailsToReturn |-> JsNull, dataFromApi |-> JsUndefined]

\* The end of one iteration of the loop (db.js 520-534): the tours are
\* attached; the next listing's row is queried, or the listings are
\* returned and the endpoint answers 200 (index.js 421-424).
finishListing(s, vToursCheck) ==
    LET attached == [s EXCEPT !.listingData[s.i].vTours = vToursCheck,
                              !.listingData[s.i].vrTours = vToursCheck]
    IN  IF s.i < Len(s.listingData)
        THEN [attached EXCEPT !.pc = "select", !.i = s.i + 1, !.photoResult = <<>>,
                              !.photos = EmptyArray, !.detailsInDb = FALSE,
                              !.detailsToReturn = JsNull, !.dataFromApi = JsUndefined]
        ELSE [attached EXCEPT !.pc = "done", !.status = 200]

\* The same code if checkTourAndOpenDetails did not test the listing's
\* count: the variant that C16 tells apart from the code.
afterPhotos_NoCountTest(s) ==
    LET detailValueToCheck ==
            IF s.detailsInDb THEN s.photoResult[1].virtual_tours ELSE EmptyArray
        detailsRaw == IF s.detailsInDb THEN detailValueToCheck ELSE EmptyArray
        detailsRetrieved == checkPhotoTourResFromDb(detailsRaw)
    IN  IF isArray(detailsRetrieved) /\ lengthOf(detailsRetrieved) = 0
           /\ tourDispatch("vTours").api = "virtualtours"
        THEN [s EXCEPT !.pc = "toursApi", !.detailsToReturn = detailsRetrieved,
                       !.listingData[s.i].log.calls.virtualtours = @ + 1]
        ELSE finishListing(s, detailsRetrieved)

\* db.js 515-519 and checkTourAndOpenDetails up to its await (557-580).
afterPhotos(s) ==
    LET listing == s.listingData[s.i]
        detailValueToCheck ==
            IF s.detailsInDb THEN s.photoResult[1].virtual_tours ELSE EmptyArray
        detailsRaw == IF s.detailsInDb THEN detailValueToCheck ELSE EmptyArray
        detailsRetrieved == checkPhotoTourResFromDb(detailsRaw)
    IN  IF listing.virtualtourscount > 0
        THEN IF isArray(detailsRetrieved) /\ lengthOf(detailsRetrieved) = 0
                /\ tourDispatch("vTours").api = "virtualtours"
             THEN [s EXCEPT !.pc = "toursApi", !.detailsToReturn = detailsRetrieved,
                            !.listingData[s.i].log.calls.virtualtours = @ + 1]
             ELSE finishListing(s, detailsRetrieved)
        ELSE finishListing(s, JsNull)

\* formatListingsRaw is entered (db.js 455-467): the first listing's row is
\* queried, or an empty result is returned at once.
startListings(s, rows) ==
    IF rows = <<>>
    THEN [s EXCEPT !.pc = "done", !.status = 200, !.listingData = rows]
    ELSE [s EXCEPT !.pc = "select", !.listingData = rows, !.i = 1]

\* An exception reaches the catch of fetchProperties, which rethrows, and
\* the endpoint answers 500 (index.js 1060-1063, 425-428); thrownBy names
\* the operation the exception came from.
failSearch(s, thrownBy) == [s EXCEPT !.pc = "done", !.status = 500, !.error = thrownBy]

InFlight(r) == search[r].pc \notin {"idle", "done"}

\* A request arrives: it is search r when r is the first that is not in
\* flight.
CanSearch(r) ==
    /\ ~InFlight(r)
    /\ \A q \in Searches : q < r => InFlight(q)

\* The searches once search r has become s: the requests that were answered
\* before are gone.
begun(r, s) ==
    [q \in Searches |->
        IF q = r THEN s ELSE IF InFlight(q) THEN search[q] ELSE IdleSearch]

\* index.js 1050-1057: the listing query returns its rows.
ListingQuery(r) ==
    /\ CanSearch(r)
    /\ \E rows \in ListingResults :
          /\ listingsReturned + Len(rows) <= MaxListingsReturned
          /\ search' = begun(r, startListings(IdleSearch, rows))
          /\ listingsReturned' = listingsReturned + Len(rows)
    /\ UNCHANGED <<geoVars, dbErrors, details, apiErrors, insertsIssued>>

\* The listing query fails.
ListingQueryFails(r) ==
    /\ CanSearch(r)
    /\ dbErrors < MaxDbErrors
    /\ dbErrors' = dbErrors + 1
    /\ search' = begun(r, failSearch(IdleSearch, "listing query"))
    /\ UNCHANGED <<geoVars, details, apiErrors, insertsIssued, listingsReturned>>

\* The same step if stored photos were never fetched again, empty or not:
\* the variant that C27 tells apart from the code.
selected_NoRefetch(s, rows) ==
    LET logged == [s EXCEPT !.photoResult = rows,
                            !.listingData[s.i].log.found = rows # <<>>,
                            !.listingData[s.i].log.row =
                                IF rows # <<>> THEN rows[1] ELSE NullRow]
    IN  IF rows = <<>>
        THEN [logged EXCEPT !.pc = "photosApi",
                            !.listingData[s.i].log.calls.photos = @ + 1]
        ELSE afterPhotos([logged EXCEPT
                 !.detailsInDb = TRUE,
                 !.listingData[s.i].photos = checkPhotoTourResFromDb(rows[1].photos)])

\* db.js 466-510: the SELECT ... WHERE mlsid = ... LIMIT 1 returns no row or
\* one of the rows of the mlsid; on a miss the photos are requested from the
\* API, on a hit the stored photos are attached and the tours come next.
selected(s, rows) ==
    LET photosRetrieved == IF Len(rows) > 0 THEN rows[1].photos
                           ELSE JsString(<<"[", "]">>)
        logged == [s EXCEPT !.photoResult = rows,
                            !.listingData[s.i].log.found = rows # <<>>,
                            !.listingData[s.i].log.row =
                                IF rows # <<>> THEN rows[1] ELSE NullRow]
    IN  IF rows = <<>>
        THEN [logged EXCEPT !.pc = "photosApi",
                            !.listingData[s.i].log.calls.photos = @ + 1]
        ELSE IF photosRetrieved.t \in {"null", "undefined"}
        THEN failSearch(logged, "TypeError")  \* photosRetrieved.length throws
        ELSE IF lengthOf(photosRetrieved) = 0
        THEN [logged EXCEPT !.pc = "photosApi",
                            !.listingData[s.i].log.calls.photos = @ + 1]
        ELSE afterPhotos([logged EXCEPT
                 !.detailsInDb = TRUE,
                 !.listingData[s.i].photos = checkPhotoTourResFromDb(photosRetrieved)])

SelectDetails(r) ==
    /\ search[r].pc = "select"
    /\ LET id == search[r].listingData[search[r].i].id
       IN  \E rows \in (IF details[id] = {} THEN {<<>>}
                        ELSE {<<row>> : row \in details[id]}) :
              search' = [search EXCEPT ![r] = selected(search[r], rows)]
    /\ UNCHANGED <<geoVars, dbErrors, details, apiErrors, insertsIssued, listingsReturned>>

\* The SELECT fails: nothing in formatListingsRaw catches it.
SelectDetailsFails(r) ==
    /\ search[r].pc = "select"
    /\ dbErrors < MaxDbErrors
    /\ dbErrors' = dbErrors + 1
    /\ search' = [search EXCEPT ![r] = failSearch(search[r], "details query")]
    /\ UNCHANGED <<geoVars, details, apiErrors, insertsIssued, listingsReturned>>

\* db.js 483-495: getListingPhotos has settled; the INSERT or the UPDATE of
\* the photos is issued.
photosFetched(s, settled) ==
    LET photos == getListingPhotos(settled)
    IN  IF photos.t = "thrown" THEN failSearch(s, "photos api")
        ELSE
        [s EXCEPT !.pc = "photosWrite", !.photos = photos,
                  !.listingData[s.i].imageUrl = JsNull,
                  !.listingData[s.i].log.fetched.photos = photos,
                  !.listingData[s.i].log.apiFailed =
                      IF settled.failed THEN @ \cup {"photos"} ELSE @,
                  !.listingData[s.i].log.inserts =
                      IF s.photoResult = <<>> THEN @ + 1 ELSE @,
                  !.listingData[s.i].log.updates =
                      IF s.photoResult = <<>> THEN @ ELSE @ \cup {"photos"}]

PhotosApiReturns(r) ==
    /\ search[r].pc = "photosApi"
    /\ \E results \in PhotoResults :
          search' = [search EXCEPT ![r] = photosFetched(search[r], ApiResponse(results))]
    /\ insertsIssued' =
          IF search[r].photoResult = <<>>
          THEN [insertsIssued EXCEPT ![search[r].listingData[search[r].i].id] = @ + 1]
          ELSE insertsIssued
    /\ UNCHANGED <<geoVars, dbErrors, details, apiErrors, listingsReturned>>

PhotosApiFails(r) ==
    /\ search[r].pc = "photosApi"
    /\ apiErrors < MaxApiErrors
    /\ apiErrors' = apiErrors + 1
    /\ search' = [search EXCEPT ![r] = photosFetched(search[r], ApiFailure)]
    /\ insertsIssued' =
          IF search[r].photoResult = <<>>
          THEN [insertsIssued EXCEPT ![search[r].listingData[search[r].i].id] = @ + 1]
          ELSE insertsIssued
    /\ UNCHANGED <<geoVars, dbErrors, details, listingsReturned>>

\* db.js 496-497: insertPhotosOpensToursToDb has returned; the fetched
\* photos are attached and the tours come next.
photosWritten(s, returned) ==
    IF returned.thrown THEN failSearch(s, "details write")
    ELSE afterPhotos([s EXCEPT !.listingData[s.i].photos = s.photos])

PhotosWrite(r) ==
    /\ search[r].pc = "photosWrite"
    /\ LET id == search[r].listingData[search[r].i].id
           mode == IF search[r].photoResult = <<>> THEN "insert" ELSE "update"
           rowCount == IF mode = "insert" THEN 1 ELSE Cardinality(details[id])
       IN  /\ details' = [details EXCEPT ![id] =
                  detailsStatement(@, "photos", "photos_edited", search[r].photos, mode)]
           /\ search' = [search EXCEPT ![r] =
                  photosWritten(search[r], insertPhotosOpensToursToDb(FALSE, rowCount))]
    /\ UNCHANGED <<geoVars, dbErrors, apiErrors, insertsIssued, listingsReturned>>

\* The statement fails: the catch of insertPhotosOpensToursToDb returns 0
\* (db.js 680-683).
PhotosWriteFails(r) ==
    /\ search[r].pc = "photosWrite"
    /\ dbErrors < MaxDbErrors
    /\ dbErrors' = dbErrors + 1
    /\ search' = [search EXCEPT ![r] =
           photosWritten([search[r] EXCEPT
                             !.listingData[search[r].i].log.writeFailed = @ \cup {"photos"}],
                         insertPhotosOpensToursToDb(TRUE, 0))]
    /\ UNCHANGED <<geoVars, details, apiErrors, insertsIssued, listingsReturned>>

\* db.js 580-601: getVrTours has settled; tours that came are written with
\* an UPDATE, none leaves the empty list that was retrieved.
toursFetched(s, settled) ==
    LET dataFromApi == getVrTours(settled)
        dataFromApiChecked ==
            IF dataFromApi.t = "thrown" THEN Thrown ELSE checkPhotoTourResFromDb(dataFromApi)
        logged == [s EXCEPT !.listingData[s.i].log.fetched.virtualtours = dataFromApi,
                            !.listingData[s.i].log.apiFailed =
                                IF settled.failed THEN @ \cup {"virtualtours"} ELSE @]
    IN  IF dataFromApi.t = "thrown" THEN failSearch(s, "tours api")
        ELSE IF isArray(dataFromApiChecked) /\ lengthOf(dataFromApiChecked) > 0
        THEN [logged EXCEPT !.pc = "toursWrite", !.dataFromApi = dataFromApiChecked,
                            !.listingData[s.i].log.updates =
                                @ \cup {tourDispatch("vTours").fieldToUpdate}]
        ELSE finishListing(logged, s.detailsToReturn)

ToursApiReturns(r) ==
    /\ search[r].pc = "toursApi"
    /\ \E results \in TourResults :
          search' = [search EXCEPT ![r] = toursFetched(search[r], ApiResponse(results))]
    /\ UNCHANGED <<geoVars, dbErrors, details, apiErrors, insertsIssued, listingsReturned>>

ToursApiFails(r) ==
    /\ search[r].pc = "toursApi"
    /\ apiErrors < MaxApiErrors
    /\ apiErrors' = apiErrors + 1
    /\ search' = [search EXCEPT ![r] = toursFetched(search[r], ApiFailure)]
    /\ UNCHANGED <<geoVars, dbErrors, details, insertsIssued, listingsReturned>>

\* db.js 597-603: the UPDATE of the tours has returned.
toursWritten(s, returned) ==
    IF returned.thrown THEN failSearch(s, "details write")
    ELSE finishListing(s, s.dataFromApi)

ToursWrite(r) ==
    /\ search[r].pc = "toursWrite"
    /\ LET id == search[r].listingData[search[r].i].id
           d == tourDispatch("vTours")
       IN  /\ details' = [details EXCEPT ![id] =
                  detailsStatement(@, d.fieldToUpdate, d.fieldTimestampToUpdate,
                                   search[r].dataFromApi, "update")]
           /\ search' = [search EXCEPT ![r] =
                  toursWritten(search[r],
                               insertPhotosOpensToursToDb(FALSE, Cardinality(details[id])))]
    /\ UNCHANGED <<geoVars, dbErrors, apiErrors, insertsIssued, listingsReturned>>

ToursWriteFails(r) ==
    /\ search[r].pc = "toursWrite"
    /\ dbErrors < MaxDbErrors
    /\ dbErrors' = dbErrors + 1
    /\ search' = [search EXCEPT ![r] =
           toursWritten([search[r] EXCEPT
                            !.listingData[search[r].i].log.writeFailed = @ \cup {"virtual_tours"}],
                        insertPhotosOpensToursToDb(TRUE, 0))]
    /\ UNCHANGED <<geoVars, details, apiErrors, insertsIssued, listingsReturned>>

InitEnrichVars ==
    /\ details = [id \in ListingIds |-> {}]
    /\ search = [r \in Searches |-> IdleSearch]
    /\ apiErrors = 0
    /\ insertsIssued = [id \in ListingIds |-> 0]
    /\ listingsReturned = 0

InitEnrich ==
    /\ InitEnrichVars
    /\ locationLookupCache = NullCache
    /\ mlsProperties = <<>>
    /\ resolveCall = [c \in Callers |-> IdleCall]
    /\ loadQueries = 0
    /\ dbErrors = 0

NextEnrich ==
    \/ \E r \in Searches : ListingQuery(r)
    \/ \E r \in Searches : ListingQueryFails(r)
    \/ \E r \in Searches : SelectDetails(r)
    \/ \E r \in Searches : SelectDetailsFails(r)
    \/ \E r \in Searches : PhotosApiReturns(r)
    \/ \E r \in Searches : PhotosApiFails(r)
    \/ \E r \in Searches : PhotosWrite(r)
    \/ \E r \in Searches : PhotosWriteFails(r)
    \/ \E r \in Searches : ToursApiReturns(r)
    \/ \E r \in Searches : ToursApiFails(r)
    \/ \E r \in Searches : ToursWrite(r)
    \/ \E r \in Searches : ToursWriteFails(r)

\* Concurrent search requests from the listing query on, over a detail
\* cache that starts empty.
SpecEnrich == InitEnrich /\ [][NextEnrich]_vars

\* Listings come and go in mls_properties: the distinct rows change.
StoreSnapshots ==
    {<<>>,
     orderBy({[city |-> Name_abcd, mlsareamajor |-> Name_abdd, subdivision |-> Null]}),
     orderBy({[city |-> Name_abcd, mlsareamajor |-> Name_abdd, subdivision |-> Null],
              [city |-> Name_ABCD, mlsareamajor |-> Null, subdivision |-> Name_abcd]})}

StoreChanges ==
    /\ \E rows \in StoreSnapshots \ {mlsProperties} : mlsProperties' = rows
    /\ UNCHANGED <<locationLookupCache, resolveCall, loadQueries, dbErrors, enrichVars>>

\* Location texts of concurrent callers.
GeoInputs == {Name_abcd, <<"a", "b">>, <<" ">>, <<>>, NonString}

InitGeo ==
    /\ locationLookupCache = NullCache
    /\ mlsProperties \in StoreSnapshots
    /\ resolveCall = [c \in Callers |-> IdleCall]
    /\ loadQueries = 0
    /\ dbErrors = 0
    /\ InitEnrichVars

NextGeo ==
    \/ \E c \in Callers, input \in GeoInputs : ResolveInvalid(c, input)
    \/ \E c \in Callers, input \in GeoInputs : ResolveCached(c, input)
    \/ \E c \in Callers, input \in GeoInputs : ResolveLoad(c, input)
    \/ \E c \in Callers : LookupQueryRuns(c)
    \/ \E c \in Callers : LookupQueryFails(c)
    \/ \E c \in Callers : LoadSettles(c)
    \/ StoreChanges

\* Concurrent callers of areaCitySubdivisionMatch in a fresh process.
SpecGeo == InitGeo /\ [][NextGeo]_vars

\* Location texts given to the matcher.
ResolveInputs ==
    {Name_abcd, Name_ABCD, <<" ", "A", "b", "c", "d", " ">>,
     <<"a", "b", "c">>, <<"b", "c">>, <<"a", "b", "c", "c">>,
     <<"d", "a", "b", "c", "d">>, <<"c", "c", "c", "c">>,
     <<"a", "c", "d">>, <<"c", "d", "c", "c", "c", "c">>,
     <<" ", "c", "c", "c", "c", " ">>, AllLaPaz,
     <<"c", "d">>, <<"a", "b", "c", "d", "d">>,
     <<>>, <<" ", " ">>, Null, NonString}

InitResolve ==
    /\ \E rows \in LookupResults :
          /\ locationLookupCache = [isNull |-> FALSE, rows |-> rows]
          /\ mlsProperties = rows
    /\ resolveCall = [c \in Callers |-> IdleCall]
    /\ loadQueries = 1
    /\ dbErrors = 0
    /\ InitEnrichVars

\* One call per lookup table and input.
NextResolve ==
    \/ \E input \in ResolveInputs :
          resolveCall[1].pc = "idle" /\ ResolveInvalid(1, input)
    \/ \E input \in ResolveInputs :
          resolveCall[1].pc = "idle" /\ ResolveCached(1, input)

\* The matcher alone, over every lookup table of up to MaxRows rows.
SpecResolve == InitResolve /\ [][NextResolve]_vars

(***************************************************************************)
(* Properties of the geography cache, under SpecGeo                        *)
(***************************************************************************)

\* The callers that have returned from a call with a valid input.
Resolved == {c \in Callers : resolveCall[c].pc = "returned"
                             /\ ~invalidInput(resolveCall[c].userInput)}

\* C1: calls of resolve that start while the cache is unpopulated issue
\* exactly one load query between them, and every caller uses the result of
\* that one load.  As long as no store operation has failed, at most one
\* lookup query has been issued, and all callers that have returned matched
\* against the same lookup data.
C1_SingleFlightLoad ==
    /\ dbErrors = 0 => loadQueries <= 1
    /\ \A c, d \in Resolved : resolveCall[c].lookupData = resolveCall[d].lookupData

\* No location text: nothing, something that is no string, or spaces only.
Blank(v) ==
    \/ v \in {Null, Undefined, NonString}
    \/ \A i \in 1..Len(v) : v[i] = " "

\* C11: a call with an empty, whitespace-only or otherwise invalid input
\* returns no match at once: it never waits for a load, it has issued no
\* lookup query and read no lookup data, and it surfaces no failure.
C11_InvalidInputNoLoad ==
    \A c \in Callers :
        resolveCall[c].pc # "idle" /\ Blank(resolveCall[c].userInput) =>
            /\ resolveCall[c].pc = "returned"
            /\ resolveCall[c].result = NoMatch
            /\ resolveCall[c].queries = 0
            /\ resolveCall[c].lookupData = <<>>
            /\ resolveCall[c].status = 0

\* A whitespace-only input was answered while the cache was unpopulated and
\* no lookup query had been issued.
C11_Witness ==
    \E c \in Callers :
        /\ resolveCall[c].pc = "returned"
        /\ resolveCall[c].userInput = <<" ">>
        /\ resolveCall[c].result = NoMatch
        /\ locationLookupCache.isNull
        /\ loadQueries = 0

\* C20: a call whose lookup query failed ends as an exception that fails
\* the request with status 500; it returns no result, builds no location
\* filter, leaves the cache as it was, and has issued the one query only.
C20_LoadFailureIsHard ==
    \A c \in Callers :
        resolveCall[c].failed =>
            /\ resolveCall[c].pc \in {"settled", "threw"}
            /\ resolveCall[c].queries = 1
            /\ resolveCall[c].result = NoMatch
            /\ resolveCall[c].filter = NoPredicate
            /\ resolveCall[c].pc = "threw" => resolveCall[c].status = 500

\* The one lookup query of a process failed, and the call that issued it
\* failed its request.
C20_Witness ==
    \E c \in Callers :
        /\ resolveCall[c].pc = "threw"
        /\ resolveCall[c].status = 500
        /\ loadQueries = 1
        /\ locationLookupCache.isNull

\* Caller c begins a call with a location text in this step.
BeginsCall(c) ==
    /\ resolveCall[c].pc \in {"idle", "returned", "threw"}
    /\ resolveCall'[c] # resolveCall[c]
    /\ ~Blank(resolveCall'[c].userInput)

\* The lookup query of caller c ends as a failure in this step.
LoadFails(c) ==
    /\ resolveCall[c].pc = "settled"
    /\ resolveCall[c].failed
    /\ resolveCall'[c].pc = "threw"

\* C29: a load whose query fails leaves the cache as it was, so that a
\* cache that was unpopulated stays unpopulated; a call with a location
\* text that begins while the cache is unpopulated issues the lookup query,
\* and one that begins once a load has populated the cache, with rows or
\* with none, issues no query and reads the cache.
C29_ReloadAfterFailureOnly ==
    [][\A c \in Callers :
          /\ LoadFails(c) => locationLookupCache' = locationLookupCache
          /\ BeginsCall(c) =>
                IF locationLookupCache.isNull
                THEN /\ resolveCall'[c].pc = "loading"
                     /\ resolveCall'[c].queries = 1
                     /\ loadQueries' = loadQueries + 1
                ELSE /\ resolveCall'[c].pc = "returned"
                     /\ resolveCall'[c].queries = 0
                     /\ resolveCall'[c].lookupData = locationLookupCache.rows
                     /\ loadQueries' = loadQueries]_vars

\* One caller alone made two calls: the lookup query of the first failed,
\* the second issued the query again and populated the cache.
C29_Witness ==
    \E c \in Callers :
        /\ \A d \in Callers \ {c} : resolveCall[d].pc = "idle"
        /\ dbErrors = 1
        /\ loadQueries = 2
        /\ resolveCall[c].pc = "returned"
        /\ resolveCall[c].queries = 1
        /\ ~locationLookupCache.isNull

\* A call was answered from a cache that a load had populated with no
\* rows, without a second query.
AnsweredFromEmptyCache ==
    \E c \in Callers :
        /\ \A d \in Callers \ {c} : resolveCall[d].pc = "idle"
        /\ locationLookupCache = [isNull |-> FALSE, rows |-> <<>>]
        /\ resolveCall[c].pc = "returned"
        /\ ~Blank(resolveCall[c].userInput)
        /\ resolveCall[c].queries = 0
        /\ loadQueries = 1

\* C9: once the cache is populated no step changes it.
C9_CacheNeverChanges ==
    [][~locationLookupCache.isNull => locationLookupCache' = locationLookupCache]_vars

(***************************************************************************)
(* Properties of the enrichment, under SpecEnrich                          *)
(***************************************************************************)

\* The positions of the listings of search r.
ListingsOf(r) == 1..Len(search[r].listingData)

\* Listing j of search r has been through the whole loop body.
Finished(r, j) ==
    \/ j < search[r].i
    \/ j = search[r].i /\ search[r].pc = "done" /\ search[r].status = 200

\* x is a non-empty list.
NonEmpty(x) == isArray(x) /\ lengthOf(x) > 0

\* C16: a listing whose virtualtourscount is 0 never has the tours operation
\* of the provider called for it, whatever row the details table holds for
\* it: the request never waits for the tours of such a listing, its log
\* shows no tours call and no tours answer, and no tours are written for it.
C16_NoToursCallAtCountZero ==
    \A r \in Searches : \A j \in ListingsOf(r) :
        LET l == search[r].listingData[j]
        IN  l.virtualtourscount = 0 =>
                /\ l.log.calls.virtualtours = 0
                /\ l.log.fetched.virtualtours = JsUndefined
                /\ "virtualtours" \notin l.log.apiFailed
                /\ "virtual_tours" \notin l.log.updates
                /\ j = search[r].i => search[r].pc \notin {"toursApi", "toursWrite"}

\* A listing of count 0 went through the loop body without a tours call
\* when no row was stored for it, when the stored row held no tours (the
\* column is read as the empty list), and when the stored row held tours
\* that an earlier enrichment had written.
C16_WitnessNoRow ==
    \E r \in Searches : \E j \in ListingsOf(r) :
        LET l == search[r].listingData[j]
        IN  /\ Finished(r, j)
            /\ l.virtualtourscount = 0
            /\ ~l.log.found
            /\ l.log.calls.virtualtours = 0

C16_WitnessEmptyTours ==
    \E r \in Searches : \E j \in ListingsOf(r) :
        LET l == search[r].listingData[j]
        IN  /\ Finished(r, j)
            /\ l.virtualtourscount = 0
            /\ l.log.found
            /\ checkPhotoTourResFromDb(l.log.row.virtual_tours) = EmptyArray
            /\ l.log.calls.virtualtours = 0

C16_Witness ==
    \E r \in Searches : \E j \in ListingsOf(r) :
        LET l == search[r].listingData[j]
        IN  /\ Finished(r, j)
            /\ l.virtualtourscount = 0
            /\ l.log.found
            /\ NonEmpty(l.log.row.virtual_tours)
            /\ l.log.calls.virtualtours = 0
            /\ l.vTours = JsNull

\* C2, as the spec states it: an enrichment that finds no row makes one
\* photos call and one insert, and an enrichment that finds the row left by
\* an earlier one makes no photos call and attaches the stored photos.
C2_RoundTrip ==
    \A r \in Searches : \A j \in ListingsOf(r) :
        LET l == search[r].listingData[j]
        IN  /\ l.photos # JsUndefined /\ ~l.log.found =>
                  l.log.calls.photos = 1 /\ l.log.inserts = 1
            /\ l.log.found =>
                  /\ l.log.calls.photos = 0
                  /\ l.photos # JsUndefined => l.photos = l.log.row.photos

\* C2, amended: an enrichment that finds no row makes one photos call and
\* one insert, and the row the insert leaves holds the fetched photos; an
\* enrichment that finds a row with a non-empty photos list makes no photos
\* call and attaches the stored list; an enrichment that finds a row with an
\* empty photos list calls the provider again and updates the row.
C2_RoundTripWhenPhotosStored ==
    \A r \in Searches : \A j \in ListingsOf(r) :
        LET l == search[r].listingData[j]
        IN  l.photos # JsUndefined =>
              /\ ~l.log.found =>
                    /\ l.log.calls.photos = 1
                    /\ l.log.inserts = 1
                    /\ "photos" \notin l.log.updates
                    /\ l.photos = l.log.fetched.photos
              /\ ( /\ ~l.log.found
                   /\ "photos" \notin l.log.writeFailed
                   /\ insertsIssued[l.id] = 1
                   /\ NonEmpty(l.photos) ) =>
                    /\ details[l.id] # {}
                    /\ \A row \in details[l.id] : row.photos = l.photos
              /\ l.log.found /\ NonEmpty(l.log.row.photos) =>
                    /\ l.log.calls.photos = 0
                    /\ l.log.inserts = 0
                    /\ "photos" \notin l.log.updates
                    /\ l.photos = l.log.row.photos
              /\ l.log.found /\ ~NonEmpty(l.log.row.photos) =>
                    /\ l.log.calls.photos = 1
                    /\ l.log.inserts = 0
                    /\ "photos" \in l.log.updates
                    /\ l.photos = l.log.fetched.photos

\* An enrichment found the row that the one insert for its listing left,
\* with photos in it, and attached them without a call.
C2_Witness ==
    \E r \in Searches : \E j \in ListingsOf(r) :
        LET l == search[r].listingData[j]
        IN  /\ l.log.found
            /\ NonEmpty(l.log.row.photos)
            /\ insertsIssued[l.id] = 1
            /\ l.log.calls.photos = 0
            /\ l.photos = l.log.row.photos

\* C3: a search fails only when the listing query itself failed; no failure
\* of the enrichment, the lookup of the detail row included, fails it.
C3_EnrichmentNeverFailsSearch ==
    \A r \in Searches : search[r].status = 500 => search[r].error = "listing query"

\* C4: when the row that was read holds a non-empty list for a field, the
\* stored list is attached and the provider is not called for that field,
\* whatever the row's other fields hold.
C4_PerFieldCacheHit ==
    \A r \in Searches : \A j \in ListingsOf(r) :
        LET l == search[r].listingData[j]
        IN  l.log.found =>
              /\ NonEmpty(l.log.row.photos) =>
                    /\ l.log.calls.photos = 0
                    /\ l.photos # JsUndefined => l.photos = l.log.row.photos
              /\ NonEmpty(l.log.row.virtual_tours) /\ l.virtualtourscount > 0 =>
                    /\ l.log.calls.virtualtours = 0
                    /\ Finished(r, j) => l.vTours = l.log.row.virtual_tours

\* C5: a listing with open houses whose row holds none has them requested
\* from the provider, and every such listing has its open houses attached.
C5_OpenHousesEnriched ==
    \A r \in Searches : \A j \in ListingsOf(r) :
        LET l == search[r].listingData[j]
        IN  Finished(r, j) /\ l.openhousescount > 0 =>
              /\ l.openHouses # JsUndefined
              /\ ~NonEmpty(l.log.row.open_houses) => l.log.calls.openhouses = 1

\* C6: a provider call that fails leaves an empty list for its field and
\* fails nothing else: the search does not fail because of it, the listing's
\* tours are still requested after its photos failed, and a search that is
\* answered has every listing enriched.
C6_ProviderFailureIsolated ==
    \A r \in Searches :
        /\ search[r].status = 500 => search[r].error \notin {"photos api", "tours api"}
        /\ \A j \in ListingsOf(r) :
              LET l == search[r].listingData[j]
              IN  /\ "photos" \in l.log.apiFailed =>
                        /\ l.log.fetched.photos = EmptyArray
                        /\ l.photos # JsUndefined => l.photos = EmptyArray
                        /\ Finished(r, j) /\ l.virtualtourscount > 0 =>
                              l.log.calls.virtualtours = 1
                  /\ "virtualtours" \in l.log.apiFailed =>
                        /\ l.log.fetched.virtualtours = EmptyArray
                        /\ Finished(r, j)
                        /\ l.vTours = EmptyArray
                  /\ ( /\ l.log.apiFailed # {}
                       /\ search[r].pc = "done"
                       /\ search[r].status = 200 ) =>
                        \A k \in ListingsOf(r) :
                            /\ Finished(r, k)
                            /\ search[r].listingData[k].photos # JsUndefined
                            /\ search[r].listingData[k].vTours # JsUndefined

\* A search was answered whose first listing's photos call failed: that
\* listing has no photos and its tours, the next listing has its photos.
C6_Witness ==
    \E r \in Searches :
        /\ search[r].pc = "done"
        /\ search[r].status = 200
        /\ Len(search[r].listingData) = 2
        /\ "photos" \in search[r].listingData[1].log.apiFailed
        /\ search[r].listingData[1].photos = EmptyArray
        /\ NonEmpty(search[r].listingData[1].vTours)
        /\ NonEmpty(search[r].listingData[2].photos)

\* C7: a write to the detail cache that fails fails nothing else: the
\* search does not fail because of it, the fetched list is attached to the
\* listing all the same, and after a failed write of the photos the tours
\* are still requested.
C7_WriteFailureNonFatal ==
    \A r \in Searches :
        /\ search[r].status = 500 => search[r].error # "details write"
        /\ \A j \in ListingsOf(r) :
              LET l == search[r].listingData[j]
              IN  /\ "photos" \in l.log.writeFailed =>
                        /\ l.photos = l.log.fetched.photos
                        /\ l.virtualtourscount > 0 => l.log.calls.virtualtours = 1
                  /\ "virtual_tours" \in l.log.writeFailed =>
                        /\ Finished(r, j)
                        /\ l.vTours = l.log.fetched.virtualtours

\* A search was answered whose first listing's insert failed: the listing
\* has the fetched photos, and the next listing was enriched after it.
C7_Witness ==
    \E r \in Searches :
        /\ search[r].pc = "done"
        /\ search[r].status = 200
        /\ Len(search[r].listingData) = 2
        /\ "photos" \in search[r].listingData[1].log.writeFailed
        /\ NonEmpty(search[r].listingData[1].photos)
        /\ details[search[r].listingData[1].id] = {}
        /\ search[r].listingData[2].photos # JsUndefined

\* C8: enrichments of one listing never race: as long as no store operation
\* has failed, at most one INSERT has been issued for each listing.
C8_AtMostOneInsert ==
    dbErrors = 0 => \A id \in ListingIds : insertsIssued[id] <= 1

(***************************************************************************)
(* Properties of the matcher, under SpecResolve                            *)
(***************************************************************************)

\* The values of a field that equal the text, letter case aside.
equalValues(lookupData, fieldName, text) ==
    {fieldOf(lookupData[i], fieldName) : i \in
        {k \in 1..Len(lookupData) :
            /\ Truthy(fieldOf(lookupData[k], fieldName))
            /\ toLowerCase(fieldOf(lookupData[k], fieldName)) = toLowerCase(text)}}

\* The most specific field with a value that equals the text.
mostSpecificField(lookupData, text) ==
    IF equalValues(lookupData, "subdivision", text) # {} THEN "subdivision"
    ELSE IF equalValues(lookupData, "mlsareamajor", text) # {} THEN "mlsareamajor"
    ELSE IF equalValues(lookupData, "city", text) # {} THEN "city"
    ELSE "none"

\* The calls that returned for a text that equals a known value.
ExactCalls ==
    {c \in Callers :
        /\ resolveCall[c].pc = "returned"
        /\ IsString(resolveCall[c].userInput)
        /\ mostSpecificField(resolveCall[c].lookupData, resolveCall[c].userInput) # "none"}

\* C10, as the spec states it: an input that equals a known value, letter
\* case aside, gives a single match, exact, of confidence 1.0, on the most
\* specific field that holds the value.
C10_ExactIsSingleMatch ==
    \A c \in ExactCalls :
        LET call == resolveCall[c]
        IN  /\ call.result.matchType = "exact"
            /\ call.result.confidence = 100
            /\ call.result.matchedField = mostSpecificField(call.lookupData, call.userInput)
            /\ call.result.matches = <<>>

\* C10, amended: such an input gives an exact result of confidence 1.0 on
\* the most specific field that holds the value; it is a single match when
\* one value of that field equals the input, and an ambiguous match that
\* carries all of them when several do.
C10_ExactSingleOrAmbiguous ==
    \A c \in ExactCalls :
        LET call == resolveCall[c]
            field == mostSpecificField(call.lookupData, call.userInput)
            hits == equalValues(call.lookupData, field, call.userInput)
        IN  /\ call.result.matchType = "exact"
            /\ call.result.confidence = 100
            /\ call.result.matchedField = field
            /\ call.result.matchedValue \in hits
            /\ Cardinality(hits) = 1 => call.result.matches = <<>>
            /\ Cardinality(hits) > 1 =>
                  /\ Len(call.result.matches) = Cardinality(hits)
                  /\ {call.result.matches[i] : i \in 1..Len(call.result.matches)} = hits
                  /\ call.result.ambiguous

\* A call returned for a text that two values of the most specific field
\* equal, letter case aside.
C10_Witness ==
    \E c \in ExactCalls :
        LET call == resolveCall[c]
            field == mostSpecificField(call.lookupData, call.userInput)
        IN  /\ field = "mlsareamajor"
            /\ Cardinality(equalValues(call.lookupData, field, call.userInput)) = 2
            /\ equalValues(call.lookupData, "city", call.userInput) # {}
            /\ Len(call.result.matches) = 2

\* The values a field takes in the lookup data, null and '' left out.
fieldValues(lookupData, fieldName) ==
    {fieldOf(lookupData[i], fieldName) : i \in
        {k \in 1..Len(lookupData) : Truthy(fieldOf(lookupData[k], fieldName))}}

Fields == {"city", "mlsareamajor", "subdivision"}

\* The value equals the text, letter case aside.
EqualsText(v, text) == toLowerCase(v) = toLowerCase(text)

\* The text is a proper prefix of the value, letter case aside.
HasPrefix(v, text) ==
    /\ ~EqualsText(v, text)
    /\ Len(text) < Len(v)
    /\ \A i \in 1..Len(text) : LowerChar(v[i]) = LowerChar(text[i])

\* The calls that returned for a location text.
TextCalls ==
    {c \in Callers : resolveCall[c].pc = "returned" /\ ~Blank(resolveCall[c].userInput)}

\* The result is a single match: a value was matched and no list of
\* candidates is carried.
IsSingleMatch(result) == result.matchType # "none" /\ result.matches = <<>>

\* The result is an ambiguous match: it carries its candidates.
IsAmbiguousMatch(result) == result.matchType # "none" /\ result.matches # <<>>

\* The area values that the text of call c is a proper prefix of.
prefixedAreas(c) ==
    {v \in fieldValues(resolveCall[c].lookupData, "mlsareamajor") :
        HasPrefix(v, resolveCall[c].userInput)}

\* The result of call c is the single prefix match on the one area.
IsAreaPrefixMatch(c) ==
    /\ IsSingleMatch(resolveCall[c].result)
    /\ resolveCall[c].result.matchType = "startsWith"
    /\ resolveCall[c].result.matchedField = "mlsareamajor"
    /\ resolveCall[c].result.matchedValue \in prefixedAreas(c)
    /\ resolveCall[c].result.mlsareamajor = resolveCall[c].result.matchedValue
    /\ resolveCall[c].result.confidence = 90

\* C12, as the spec states it: an input that is a proper prefix of exactly
\* one area value, and neither equal to nor a prefix of any subdivision
\* value, gives a single match on the area, by prefix, of confidence 0.9.
C12_AreaPrefix ==
    \A c \in TextCalls :
        ( /\ Cardinality(prefixedAreas(c)) = 1
          /\ \A v \in fieldValues(resolveCall[c].lookupData, "subdivision") :
                /\ ~EqualsText(v, resolveCall[c].userInput)
                /\ ~HasPrefix(v, resolveCall[c].userInput) )
        => IsAreaPrefixMatch(c)

\* C12, amended: the same when in addition the input is neither equal to
\* nor a prefix of any city value, and equal to no area value.
C12_AreaPrefixOnly ==
    \A c \in TextCalls :
        ( /\ Cardinality(prefixedAreas(c)) = 1
          /\ \A v \in fieldValues(resolveCall[c].lookupData, "mlsareamajor") :
                ~EqualsText(v, resolveCall[c].userInput)
          /\ \A f \in {"city", "subdivision"} :
                \A v \in fieldValues(resolveCall[c].lookupData, f) :
                    /\ ~EqualsText(v, resolveCall[c].userInput)
                    /\ ~HasPrefix(v, resolveCall[c].userInput) )
        => IsAreaPrefixMatch(c)

\* A call returned the prefix match on the one area the text is a prefix
\* of, from lookup data that also holds cities and subdivisions.
C12_Witness ==
    \E c \in TextCalls :
        /\ Cardinality(prefixedAreas(c)) = 1
        /\ IsAreaPrefixMatch(c)
        /\ fieldValues(resolveCall[c].lookupData, "city") # {}
        /\ fieldValues(resolveCall[c].lookupData, "subdivision") # {}

\* The text of call c as the matcher compares it: lower case, trimmed.
normalizedOf(c) == trim(toLowerCase(resolveCall[c].userInput))

\* a occurs in b.
Occurs(a, b) ==
    \E i \in 0..(Len(b) - Len(a)) : \A k \in 1..Len(a) : b[i + k] = a[k]

\* The value is equal to the normalized text n, or n is a prefix of it.
ExactOrPrefix(v, n) ==
    /\ Len(n) <= Len(v)
    /\ \A i \in 1..Len(n) : LowerChar(v[i]) = n[i]

\* No value of any field is equal to the text of call c or has it as a
\* prefix.
NoExactOrPrefixHit(c) ==
    \A f \in Fields : \A v \in fieldValues(resolveCall[c].lookupData, f) :
        ~ExactOrPrefix(v, normalizedOf(c))

\* The value matches the normalized text n by containment, one way or the
\* other, short of equality and prefix.
ContainsMatch(v, n) ==
    /\ ~ExactOrPrefix(v, n)
    /\ Occurs(n, toLowerCase(v)) \/ Occurs(toLowerCase(v), n)

\* The city values that match the text of call c by containment.
containedCities(c) ==
    {v \in fieldValues(resolveCall[c].lookupData, "city") :
        ContainsMatch(v, normalizedOf(c))}

\* C13: an input that matches two distinct city values by containment, with
\* no exact or prefix hit in any field, gives an ambiguous match on the
\* city, by substring, of confidence 0.75, whose candidates are those two
\* cities.
C13_TwoCitiesBySubstring ==
    \A c \in TextCalls :
        Cardinality(containedCities(c)) = 2 /\ NoExactOrPrefixHit(c) =>
            /\ IsAmbiguousMatch(resolveCall[c].result)
            /\ resolveCall[c].result.matchedField = "city"
            /\ resolveCall[c].result.matchType = "contains"
            /\ resolveCall[c].result.confidence = 75
            /\ Len(resolveCall[c].result.matches) = 2
            /\ {resolveCall[c].result.matches[i] : i \in 1..2} = containedCities(c)

\* A call returned the two cities that contain its text, from lookup data
\* in which an area contains the text as well.
C13_Witness ==
    \E c \in TextCalls :
        /\ Cardinality(containedCities(c)) = 2
        /\ NoExactOrPrefixHit(c)
        /\ \E v \in fieldValues(resolveCall[c].lookupData, "mlsareamajor") :
              ContainsMatch(v, normalizedOf(c))
        /\ resolveCall[c].result.matchType = "contains"
        /\ Len(resolveCall[c].result.matches) = 2

\* At most k insertions, deletions and substitutions of one character turn
\* a into b.
RECURSIVE WithinEdits(_, _, _)
WithinEdits(a, b, k) ==
    IF k < 0 THEN FALSE
    ELSE IF a = <<>> THEN Len(b) <= k
    ELSE IF b = <<>> THEN Len(a) <= k
    ELSE IF Head(a) = Head(b) THEN WithinEdits(Tail(a), Tail(b), k)
    ELSE \/ WithinEdits(Tail(a), Tail(b), k - 1)
         \/ WithinEdits(Tail(a), b, k - 1)
         \/ WithinEdits(a, Tail(b), k - 1)

\* The edit distance of a and b when it is at most 3.
editDistance(a, b) ==
    CHOOSE d \in 0..3 : WithinEdits(a, b, d) /\ ~WithinEdits(a, b, d - 1)

\* No value of any field is an exact, prefix or substring hit for the text
\* of call c.
NoHigherHit(c) ==
    /\ NoExactOrPrefixHit(c)
    /\ \A f \in Fields : \A v \in fieldValues(resolveCall[c].lookupData, f) :
          ~ContainsMatch(v, normalizedOf(c))

\* The fields and values within the fuzzy threshold of the text of call c:
\* edit distance at most min(3, floor(len(value) / 3)).
fuzzyCandidates(c) ==
    {fv \in UNION {{<<f, v>> : v \in fieldValues(resolveCall[c].lookupData, f)} : f \in Fields} :
        WithinEdits(normalizedOf(c), toLowerCase(fv[2]), Min2(3, Len(fv[2]) \div 3))}

\* C14: a normalized input shorter than 4 characters with no exact, prefix
\* or substring hit gives no match, also when a value lies within the fuzzy
\* threshold.
C14_FuzzyLengthGate ==
    \A c \in TextCalls :
        Len(normalizedOf(c)) < 4 /\ NoHigherHit(c) => resolveCall[c].result = NoMatch

\* A call with a text of three characters returned no match although a
\* value lies within the fuzzy threshold of the text.
C14_Witness ==
    \E c \in TextCalls :
        /\ Len(normalizedOf(c)) = 3
        /\ NoHigherHit(c)
        /\ fuzzyCandidates(c) # {}
        /\ resolveCall[c].result = NoMatch

\* C15: an input of 4 or more characters with no exact, prefix or substring
\* hit and exactly one value within the fuzzy threshold gives a single
\* match on that value and its field, fuzzy, of confidence
\* max(0.5, 1 - 0.15 d) for its edit distance d: 0.85 at distance 1.
C15_FuzzySingleMatch ==
    \A c \in TextCalls :
        ( /\ Len(normalizedOf(c)) >= 4
          /\ NoHigherHit(c)
          /\ Cardinality(fuzzyCandidates(c)) = 1 ) =>
            LET fv == CHOOSE x \in fuzzyCandidates(c) : TRUE
                d == editDistance(normalizedOf(c), toLowerCase(fv[2]))
                result == resolveCall[c].result
            IN  /\ IsSingleMatch(result)
                /\ result.matchType = "fuzzy"
                /\ result.matchedField = fv[1]
                /\ result.matchedValue = fv[2]
                /\ result.confidence = (IF 100 - 15 * d > 50 THEN 100 - 15 * d ELSE 50)
                /\ d = 1 => result.confidence = 85

\* A call returned the one subdivision at distance 1 from its text, with
\* confidence 0.85.
C15_Witness ==
    \E c \in TextCalls :
        /\ Len(normalizedOf(c)) >= 4
        /\ NoHigherHit(c)
        /\ fuzzyCandidates(c) = {<<"subdivision", resolveCall[c].result.matchedValue>>}
        /\ editDistance(normalizedOf(c), toLowerCase(resolveCall[c].result.matchedValue)) = 1
        /\ resolveCall[c].result.matchType = "fuzzy"
        /\ resolveCall[c].result.confidence = 85

\* A call returned the one subdivision at distance 2 from its text.
FuzzyAtDistanceTwo ==
    \E c \in TextCalls :
        /\ Cardinality(fuzzyCandidates(c)) = 1
        /\ NoHigherHit(c)
        /\ resolveCall[c].result.matchType = "fuzzy"
        /\ resolveCall[c].result.confidence = 70

(***************************************************************************)
(* The location predicate of the listing query, under SpecResolve          *)
(***************************************************************************)

\* The values a result carries as its candidates: the matches themselves,
\* or the value of each match where the matches are objects.
candidateValues(result) ==
    IF result.matchType = "fuzzy"
    THEN {result.matches[i].value : i \in 1..Len(result.matches)}
    ELSE {result.matches[i] : i \in 1..Len(result.matches)}

\* The value v matches the normalized text n at the tier: by equality, as
\* a proper prefix, by containment, or within the fuzzy threshold when
\* nothing closer applies and the text has 4 characters or more.
MatchesAtTier(v, n, tier) ==
    CASE tier = "exact" -> toLowerCase(v) = n
      [] tier = "startsWith" -> ExactOrPrefix(v, n) /\ toLowerCase(v) # n
      [] tier = "contains" -> ContainsMatch(v, n)
      [] tier = "fuzzy" -> /\ ~ExactOrPrefix(v, n)
                           /\ ~ContainsMatch(v, n)
                           /\ Len(n) >= 4
                           /\ WithinEdits(n, toLowerCase(v), Min2(3, Len(v) \div 3))
      [] OTHER -> FALSE

\* The filter of call c is an inclusion predicate on the column of the
\* matched field whose list holds exactly the candidates of the result.
IsInclusionOnCandidates(c) ==
    LET result == resolveCall[c].result
        filter == resolveCall[c].filter
    IN  /\ filter.kind = "in"
        /\ filter.columns = {IF result.matchedField = "subdivision"
                             THEN "subdivisionname" ELSE result.matchedField}
        /\ {filter.values[i] : i \in 1..Len(filter.values)} = candidateValues(result)

\* Every candidate of the result of call c is a value of the matched field
\* that matched at the tier of the result.
CandidatesOfMatchedField(c) ==
    LET result == resolveCall[c].result
    IN  \A v \in candidateValues(result) :
            /\ v \in fieldValues(resolveCall[c].lookupData, result.matchedField)
            /\ MatchesAtTier(v, normalizedOf(c), result.matchType)

\* C17: for every ambiguous match the location predicate is an inclusion
\* predicate on the matched field, its list is exactly the candidate set,
\* and every candidate is a value of the matched field that matched at the
\* winning tier.
C17_InclusionOnCandidates ==
    \A c \in TextCalls :
        IsAmbiguousMatch(resolveCall[c].result) =>
            IsInclusionOnCandidates(c) /\ CandidatesOfMatchedField(c)

\* The two ways the code departs from C17.  A prefix or substring result
\* without a city hit names the field of its first hit and lists the hits
\* of every field.
PooledAcrossFields ==
    \E c \in TextCalls :
        /\ IsAmbiguousMatch(resolveCall[c].result)
        /\ resolveCall[c].result.matchType \in {"startsWith", "contains"}
        /\ IsInclusionOnCandidates(c)
        /\ ~CandidatesOfMatchedField(c)

\* A fuzzy result on a city or an area lists the text of its match objects,
\* not their values.
FuzzyListOfObjects ==
    \E c \in TextCalls :
        /\ IsAmbiguousMatch(resolveCall[c].result)
        /\ resolveCall[c].result.matchType = "fuzzy"
        /\ resolveCall[c].filter.kind = "in"
        /\ \A i \in 1..Len(resolveCall[c].filter.values) :
              resolveCall[c].filter.values[i] = <<"[object Object]">>

\* Ambiguous matches for which C17 does hold are reached as well: two
\* cities by prefix.
InclusionOnTwoCities ==
    \E c \in TextCalls :
        /\ IsAmbiguousMatch(resolveCall[c].result)
        /\ resolveCall[c].result.matchedField = "city"
        /\ IsInclusionOnCandidates(c) /\ CandidatesOfMatchedField(c)

\* The most specific field the result populates: subdivision, else area,
\* else city.
mostSpecificPopulated(result) ==
    IF result.subdivision # Null THEN "subdivision"
    ELSE IF result.mlsareamajor # Null THEN "mlsareamajor"
    ELSE IF result.city # Null THEN "city"
    ELSE "none"

\* The filter of call c is one equality predicate, on the column of the
\* matched field and with the matched value, and the matched field is the
\* most specific field the result populates.
IsEqualityOnMatchedField(c) ==
    LET result == resolveCall[c].result
        filter == resolveCall[c].filter
    IN  /\ filter.kind = "equals"
        /\ filter.columns = {IF result.matchedField = "subdivision"
                             THEN "subdivisionname" ELSE result.matchedField}
        /\ filter.text = result.matchedValue
        /\ result.matchedField = mostSpecificPopulated(result)

EqualityWithAmbiguousParents ==
    \E c \in TextCalls :
        /\ IsSingleMatch(resolveCall[c].result)
        /\ resolveCall[c].result.matchedField = "subdivision"
        /\ resolveCall[c].result.ambiguous
        /\ Len(resolveCall[c].result.possibleCities) > 1
        /\ resolveCall[c].filter.kind = "equals"
        /\ resolveCall[c].filter.columns = {"subdivisionname"}

\* The text "All La Paz" resolved to a single match on the area "La Paz".
AllLaPazResolved ==
    \E c \in TextCalls :
        /\ resolveCall[c].userInput = <<"A", "l", "l", " ", "L", "a", " ", "P", "a", "z">>
        /\ IsSingleMatch(resolveCall[c].result)
        /\ resolveCall[c].result.matchedField = "mlsareamajor"
        /\ resolveCall[c].filter.kind = "like"

\* The text without its leading and trailing spaces, its case kept.
RECURSIVE Trimmed(_)
Trimmed(text) ==
    IF text = <<>> THEN text
    ELSE IF Head(text) = " " THEN Trimmed(Tail(text))
    ELSE IF text[Len(text)] = " " THEN Trimmed(SubSeq(text, 1, Len(text) - 1))
    ELSE text

\* The filter of call c is the substring match of the text across the
\* three columns.
IsSubstringAcrossFields(c, text) ==
    resolveCall[c].filter =
        [kind |-> "like", columns |-> {"city", "mlsareamajor", "subdivisionname"},
         text |-> text, values |-> <<>>]

\* C19: when a present location text resolves to no match, the location
\* predicate is the substring match across city, area and subdivision on
\* the text as it was given, its case kept, without its leading and
\* trailing whitespace.
C19_FallbackOnTrimmedText ==
    \A c \in TextCalls :
        resolveCall[c].result.matchType = "none" =>
            IsSubstringAcrossFields(c, Trimmed(resolveCall[c].userInput))

\* The two ways the code departs from C19.  A text with spaces around it
\* that resolves to no match is searched for with its spaces.
FallbackKeepsWhitespace ==
    \E c \in TextCalls :
        /\ resolveCall[c].result.matchType = "none"
        /\ Trimmed(resolveCall[c].userInput) # resolveCall[c].userInput
        /\ IsSubstringAcrossFields(c, resolveCall[c].userInput)

\* The text "All La Paz" that resolves to no match gives the substring
\* match on the area alone.
FallbackOfAllLaPaz ==
    \E c \in TextCalls :
        /\ resolveCall[c].result.matchType = "none"
        /\ resolveCall[c].userInput = <<"A", "l", "l", " ", "L", "a", " ", "P", "a", "z">>
        /\ resolveCall[c].filter.kind = "like"
        /\ resolveCall[c].filter.columns = {"mlsareamajor"}

\* A text without spaces around it that resolves to no match gives the
\* predicate of C19.
FallbackOnPlainText ==
    \E c \in TextCalls :
        /\ resolveCall[c].result.matchType = "none"
        /\ Trimmed(resolveCall[c].userInput) = resolveCall[c].userInput
        /\ IsSubstringAcrossFields(c, resolveCall[c].userInput)

(***************************************************************************)
(* Priorities of the matcher, under SpecResolve                            *)
(***************************************************************************)

\* The values of a field that equal the normalized text of call c.
equalTo(c, fieldName) ==
    {v \in fieldValues(resolveCall[c].lookupData, fieldName) :
        toLowerCase(v) = normalizedOf(c)}

\* C21: a text that equals one area value and no subdivision value gives a
\* single match on the area, exact, of confidence 1.0, whether or not a
\* city has the same value, and the location predicate is the equality on
\* the area column with that value.
C21_ExactAreaBeforeCity ==
    \A c \in TextCalls :
        ( /\ equalTo(c, "subdivision") = {}
          /\ Cardinality(equalTo(c, "mlsareamajor")) = 1 ) =>
            LET result == resolveCall[c].result
            IN  /\ IsSingleMatch(result)
                /\ result.matchType = "exact"
                /\ result.matchedField = "mlsareamajor"
                /\ {result.matchedValue} = equalTo(c, "mlsareamajor")
                /\ result.confidence = 100
                /\ resolveCall[c].filter =
                       [kind |-> "equals", columns |-> {"mlsareamajor"},
                        text |-> result.matchedValue, values |-> <<>>]

\* A call returned the area for a text that a city equals as well.
C21_Witness ==
    \E c \in TextCalls :
        /\ equalTo(c, "subdivision") = {}
        /\ Cardinality(equalTo(c, "mlsareamajor")) = 1
        /\ equalTo(c, "city") # {}
        /\ resolveCall[c].result.matchedField = "mlsareamajor"
        /\ resolveCall[c].filter.kind = "equals"

\* The fields and values of the lookup data of call c that match its text
\* at the tier.
hitsAt(c, tier) ==
    UNION {{<<f, v>> : v \in {w \in fieldValues(resolveCall[c].lookupData, f) :
                                 MatchesAtTier(w, normalizedOf(c), tier)}} : f \in Fields}

\* The first of the tiers, in their order of priority, that has a hit for
\* the text of call c; "none" when no tier has one.
highestTier(c) ==
    IF hitsAt(c, "exact") # {} THEN "exact"
    ELSE IF hitsAt(c, "startsWith") # {} THEN "startsWith"
    ELSE IF hitsAt(c, "contains") # {} THEN "contains"
    ELSE IF hitsAt(c, "fuzzy") # {} THEN "fuzzy"
    ELSE "none"

\* C22: the tier of every result is the first of exact, prefix, substring
\* and fuzzy in which a value of any field is classified, hits in lower
\* tiers have no part in the result, and no match is returned only when no
\* tier has a hit.
C22_StrictTierPriority ==
    \A c \in TextCalls :
        LET result == resolveCall[c].result
        IN  /\ result.matchType = highestTier(c)
            /\ IsSingleMatch(result) =>
                  MatchesAtTier(result.matchedValue, normalizedOf(c), result.matchType)
            /\ \A v \in candidateValues(result) :
                  MatchesAtTier(v, normalizedOf(c), result.matchType)

\* A call returned an ambiguous prefix result from lookup data in which
\* another value matches the text by containment only.
C22_Witness ==
    \E c \in TextCalls :
        /\ Cardinality(hitsAt(c, "startsWith")) > 1
        /\ hitsAt(c, "contains") # {}
        /\ resolveCall[c].result.matchType = "startsWith"
        /\ IsAmbiguousMatch(resolveCall[c].result)

\* An exact result with values of the lower tiers present, and a result
\* of each lower tier, are reached as well.
ExactOverLowerTiers ==
    \E c \in TextCalls :
        /\ hitsAt(c, "exact") # {}
        /\ hitsAt(c, "startsWith") \cup hitsAt(c, "contains") \cup hitsAt(c, "fuzzy") # {}
        /\ resolveCall[c].result.matchType = "exact"

SubstringOverFuzzy ==
    \E c \in TextCalls :
        /\ hitsAt(c, "contains") # {}
        /\ hitsAt(c, "fuzzy") # {}
        /\ resolveCall[c].result.matchType = "contains"

\* The calls whose text has its first hits in the prefix or in the
\* substring tier.
PartialCalls == {c \in TextCalls : highestTier(c) \in {"startsWith", "contains"}}

\* The hits of call c at its winning tier, and those of them in one field.
pool(c) == hitsAt(c, highestTier(c))

poolOf(c, fieldName) == {h \in pool(c) : h[1] = fieldName}

\* The first value of the field, in the order of the lookup data, that is
\* in the pool of call c.
firstOf(c, fieldName) ==
    LET lookupData == resolveCall[c].lookupData
        k == CHOOSE i \in 1..Len(lookupData) :
                /\ <<fieldName, fieldOf(lookupData[i], fieldName)>> \in pool(c)
                /\ \A j \in 1..(i - 1) :
                      <<fieldName, fieldOf(lookupData[j], fieldName)>> \notin pool(c)
    IN  fieldOf(lookupData[k], fieldName)

\* C23: in the prefix and substring tiers, a pool with a city hit gives a
\* result on the city field that is ambiguous exactly when the pool holds
\* more than one city value; a pool without a city hit gives its first hit
\* (areas come before subdivisions), ambiguous exactly when the pool holds
\* more than one hit.
C23_PooledPartialHits ==
    \A c \in PartialCalls :
        LET result == resolveCall[c].result
        IN  IF poolOf(c, "city") # {}
            THEN /\ result.matchedField = "city"
                 /\ IsAmbiguousMatch(result) <=> Cardinality(poolOf(c, "city")) > 1
            ELSE LET first == IF poolOf(c, "mlsareamajor") # {}
                              THEN "mlsareamajor" ELSE "subdivision"
                 IN  /\ result.matchedField = first
                     /\ result.matchedValue = firstOf(c, first)
                     /\ IsAmbiguousMatch(result) <=> Cardinality(pool(c)) > 1

\* Where the code departs from C23: one city value in a pool that holds a
\* hit of another field as well gives an ambiguous result whose candidates
\* are the one city.
OneCityIsAmbiguous ==
    \E c \in PartialCalls :
        /\ Cardinality(poolOf(c, "city")) = 1
        /\ Cardinality(pool(c)) > 1
        /\ IsAmbiguousMatch(resolveCall[c].result)
        /\ Len(resolveCall[c].result.matches) = 1

\* The cases of C23 that the code agrees with are reached as well: two
\* cities in the pool, a pool of one city, and a pool without a city.
TwoCitiesInPool ==
    \E c \in PartialCalls :
        /\ Cardinality(poolOf(c, "city")) = 2
        /\ pool(c) # poolOf(c, "city")
        /\ IsAmbiguousMatch(resolveCall[c].result)
        /\ resolveCall[c].result.matchedField = "city"

OneCityAlone ==
    \E c \in PartialCalls :
        /\ Cardinality(pool(c)) = 1
        /\ poolOf(c, "city") # {}
        /\ IsSingleMatch(resolveCall[c].result)

PoolWithoutCity ==
    \E c \in PartialCalls :
        /\ poolOf(c, "city") = {}
        /\ poolOf(c, "mlsareamajor") # {}
        /\ poolOf(c, "subdivision") # {}
        /\ resolveCall[c].result.matchedField = "mlsareamajor"
        /\ IsAmbiguousMatch(resolveCall[c].result)

\* The most specific field with a hit for the text of call c at the tier.
mostSpecificAt(c, tier) ==
    IF \E h \in hitsAt(c, tier) : h[1] = "subdivision" THEN "subdivision"
    ELSE IF \E h \in hitsAt(c, tier) : h[1] = "mlsareamajor" THEN "mlsareamajor"
    ELSE IF \E h \in hitsAt(c, tier) : h[1] = "city" THEN "city"
    ELSE "none"

\* C24: the field of every single match is the most specific field with a
\* hit at the tier of the match: a subdivision hit at that tier is reported
\* before an area hit, and an area hit before a city hit.
C24_SingleMatchMostSpecific ==
    \A c \in TextCalls :
        LET result == resolveCall[c].result
        IN  IsSingleMatch(result) =>
                result.matchedField = mostSpecificAt(c, result.matchType)

\* A call returned a single match on a subdivision for a text that a city
\* or an area matches at the same tier.
C24_Witness ==
    \E c \in TextCalls :
        LET result == resolveCall[c].result
        IN  /\ IsSingleMatch(result)
            /\ result.matchedField = "subdivision"
            /\ \E h \in hitsAt(c, result.matchType) : h[1] # "subdivision"

\* Single matches of the three lower tiers are reached as well; each comes
\* from a pool of one hit.
SingleMatchAt(tier) ==
    \E c \in TextCalls :
        /\ IsSingleMatch(resolveCall[c].result)
        /\ resolveCall[c].result.matchType = tier
        /\ Cardinality(hitsAt(c, tier)) = 1

SinglePrefixMatch == SingleMatchAt("startsWith")

SingleSubstringMatch == SingleMatchAt("contains")

SingleFuzzyMatch == SingleMatchAt("fuzzy")

\* The calls whose result the fuzzy tier decided.
FuzzyCalls == {c \in TextCalls : resolveCall[c].result.matchType = "fuzzy"}

\* The edit distance between the text of call c and a value.
distanceTo(c, v) == editDistance(normalizedOf(c), toLowerCase(v))

\* C25: a fuzzy result reports a hit of the least edit distance among the
\* fuzzy hits of all three fields; with two or more hits it is ambiguous
\* and carries every hit of the pool, each with its distance, in ascending
\* order of distance.
C25_FuzzyLeastDistance ==
    \A c \in FuzzyCalls :
        LET result == resolveCall[c].result
            hits == hitsAt(c, "fuzzy")
            matches == result.matches
        IN  /\ <<result.matchedField, result.matchedValue>> \in hits
            /\ \A h \in hits : distanceTo(c, result.matchedValue) <= distanceTo(c, h[2])
            /\ Cardinality(hits) = 1 => matches = <<>>
            /\ Cardinality(hits) >= 2 =>
                  /\ result.ambiguous
                  /\ Len(matches) = Cardinality(hits)
                  /\ {<<matches[i].field, matches[i].value>> : i \in 1..Len(matches)} = hits
                  /\ \A i \in 1..Len(matches) :
                        matches[i].distance = distanceTo(c, matches[i].value)
                  /\ \A i \in 1..Len(matches) : \A j \in i..Len(matches) :
                        matches[i].distance <= matches[j].distance
                  /\ matches[1].field = result.matchedField
                  /\ matches[1].value = result.matchedValue

\* A call returned the subdivision at distance 1 from lookup data in which
\* a city, which comes first in the pool, lies at distance 2.
C25_Witness ==
    \E c \in FuzzyCalls :
        LET result == resolveCall[c].result
        IN  /\ result.matchedField = "subdivision"
            /\ distanceTo(c, result.matchedValue) = 1
            /\ Len(result.matches) = 2
            /\ result.matches[2].field = "city"
            /\ result.matches[2].distance = 2

(***************************************************************************)
(* Derived parents, under SpecResolve                                      *)
(***************************************************************************)

\* The calls whose result reports a subdivision or an area.
ChildCalls ==
    {c \in TextCalls : resolveCall[c].result.matchedField \in {"subdivision", "mlsareamajor"}}

\* The distinct values of a parent field in the rows of the lookup data of
\* call c that hold the matched value, letter case aside.
parentsOf(c, parentField) ==
    LET lookupData == resolveCall[c].lookupData
        result == resolveCall[c].result
        sharing == {k \in 1..Len(lookupData) :
                       LET v == fieldOf(lookupData[k], result.matchedField)
                       IN  v # Null /\ EqualsText(v, result.matchedValue)}
    IN  {fieldOf(lookupData[k], parentField) : k \in sharing} \ {Null}

\* The one element of a set of one element, Null for any other set.
theOnly(S) == IF Cardinality(S) = 1 THEN CHOOSE x \in S : TRUE ELSE Null

\* The elements of a sequence.
Range(q) == {q[i] : i \in 1..Len(q)}

\* C26: when a subdivision or an area is reported, its city, and for a
\* subdivision its area, is populated exactly when the rows that hold the
\* reported value have one distinct value for that parent; when a parent
\* has more than one distinct value the result is flagged for its
\* ambiguous parents and carries all distinct parents.
C26_DerivedParents ==
    \A c \in ChildCalls :
        LET result == resolveCall[c].result
            ofSubdivision == result.matchedField = "subdivision"
            cities == parentsOf(c, "city")
            areas == parentsOf(c, "mlsareamajor")
            several == Cardinality(cities) > 1 \/ (ofSubdivision /\ Cardinality(areas) > 1)
        IN  /\ result.city = theOnly(cities)
            /\ ofSubdivision => result.mlsareamajor = theOnly(areas)
            /\ IsSingleMatch(result) => (result.ambiguous <=> several)
            /\ several =>
                  /\ result.ambiguous
                  /\ Range(result.possibleCities) = cities
                  /\ Len(result.possibleCities) = Cardinality(cities)
                  /\ ofSubdivision =>
                        /\ Range(result.possibleAreas) = areas
                        /\ Len(result.possibleAreas) = Cardinality(areas)
            /\ ~several => result.possibleCities = <<>> /\ result.possibleAreas = <<>>

\* A call returned a single match on a subdivision that lies in two cities
\* and in one area: the area is populated, the city is not, and both
\* cities are carried.
C26_Witness ==
    \E c \in ChildCalls :
        LET result == resolveCall[c].result
        IN  /\ IsSingleMatch(result)
            /\ result.matchedField = "subdivision"
            /\ Cardinality(parentsOf(c, "city")) = 2
            /\ Cardinality(parentsOf(c, "mlsareamajor")) = 1
            /\ result.city = Null
            /\ result.mlsareamajor # Null
            /\ Len(result.possibleCities) = 2
            /\ result.ambiguous

\* An area with one city, and an area with two, are reached as well.
AreaWithOneCity ==
    \E c \in ChildCalls :
        /\ IsSingleMatch(resolveCall[c].result)
        /\ resolveCall[c].result.matchedField = "mlsareamajor"
        /\ resolveCall[c].result.city # Null
        /\ ~resolveCall[c].result.ambiguous

AreaWithTwoCities ==
    \E c \in ChildCalls :
        /\ IsSingleMatch(resolveCall[c].result)
        /\ resolveCall[c].result.matchedField = "mlsareamajor"
        /\ Len(resolveCall[c].result.possibleCities) = 2
        /\ resolveCall[c].result.city = Null

(***************************************************************************)
(* Provider calls and writes of the enrichment, under SpecEnrich           *)
(***************************************************************************)

\* The lookup of the row of listing j of search r has returned.
LookedUp(r, j) ==
    \/ j < search[r].i
    \/ /\ j = search[r].i
       /\ search[r].pc # "select"
       /\ search[r].error # "details query"

\* C27: the photos operation of the provider is called for a listing
\* exactly when the lookup finds no row for its id or finds a row whose
\* stored photos are the empty list, whatever photoscount the listing
\* declares; it is called once, and not before the lookup.
C27_PhotosCallWhenNothingStored ==
    \A r \in Searches : \A j \in ListingsOf(r) :
        LET l == search[r].listingData[j]
            nothingStored == ~l.log.found \/ l.log.row.photos = [t |-> "object", v |-> <<>>]
        IN  l.log.calls.photos =
                (IF LookedUp(r, j) /\ nothingStored THEN 1 ELSE 0)

\* A listing that declares no photos had the provider called because no
\* row was stored for it.
C27_Witness ==
    \E r \in Searches : \E j \in ListingsOf(r) :
        LET l == search[r].listingData[j]
        IN  /\ Finished(r, j)
            /\ l.photoscount = 0
            /\ ~l.log.found
            /\ l.log.calls.photos = 1

\* The other cases are reached as well: a row with an empty list of photos
\* and a call, stored photos and no call for a listing that declares no
\* photos, and a call for a listing that declares photos.
EmptyPhotosFetchedAgain ==
    \E r \in Searches : \E j \in ListingsOf(r) :
        LET l == search[r].listingData[j]
        IN  /\ Finished(r, j)
            /\ l.log.found
            /\ l.log.row.photos = [t |-> "object", v |-> <<>>]
            /\ l.log.calls.photos = 1

StoredPhotosNoCall ==
    \E r \in Searches : \E j \in ListingsOf(r) :
        LET l == search[r].listingData[j]
        IN  /\ Finished(r, j)
            /\ l.photoscount = 0
            /\ l.log.found
            /\ NonEmpty(l.log.row.photos)
            /\ l.log.calls.photos = 0

DeclaredPhotosAndCall ==
    \E r \in Searches : \E j \in ListingsOf(r) :
        LET l == search[r].listingData[j]
        IN  /\ Finished(r, j)
            /\ l.photoscount > 0
            /\ l.log.calls.photos = 1

\* The columns a write of the enrichment may set together: a detail field
\* and the timestamp of that field.
WrittenTogether ==
    {<<"photos", "photos_edited">>, <<"virtual_tours", "virtual_tours_edited">>}

\* The row new is the row old with at most one detail field and its
\* timestamp set.
OneFieldWritten(old, new) ==
    \E w \in WrittenTogether :
        new = [old EXCEPT ![w[1]] = new[w[1]], ![w[2]] = new[w[2]]]

\* A row as an INSERT creates it, before its one field is set.
CreatedRow ==
    [photos |-> [t |-> "null", v |-> <<>>], virtual_tours |-> [t |-> "null", v |-> <<>>],
     open_houses |-> [t |-> "null", v |-> <<>>],
     time_entered |-> "NOW", photos_edited |-> "NULL",
     virtual_tours_edited |-> "NULL", open_houses_edited |-> "NULL"]

\* Every row holds no open houses and no open-houses timestamp.
OpenHousesUnwritten ==
    \A id \in ListingIds : \A row \in details[id] :
        /\ row.open_houses = [t |-> "null", v |-> <<>>]
        /\ row.open_houses_edited = "NULL"

AllLaPazCalls ==
    {c \in Callers :
        /\ resolveCall[c].pc = "returned"
        /\ resolveCall[c].userInput = <<"A", "l", "l", " ", "L", "a", " ", "P", "a", "z">>}

\* C30: for the location text "All La Paz" the location predicate is the
\* substring match of "La Paz" on the area column, whatever the text
\* resolves to; the text is resolved like any other, and its result has no
\* part in the predicate.
C30_AllLaPazWildcard ==
    \A c \in AllLaPazCalls :
        /\ resolveCall[c].filter =
               [kind |-> "like", columns |-> {"mlsareamajor"},
                text |-> <<"L", "a", " ", "P", "a", "z">>, values |-> <<>>]
        /\ resolveCall[c].result.matchType = highestTier(c)
        /\ resolveCall[c].result.matchType # "none" =>
              resolveCall[c].result.inputReceived = resolveCall[c].userInput

\* The text resolved to an ambiguous match on the city "La Paz", and the
\* predicate is the substring match on the area.
C30_Witness ==
    \E c \in AllLaPazCalls :
        /\ IsAmbiguousMatch(resolveCall[c].result)
        /\ resolveCall[c].result.matchedField = "city"
        /\ resolveCall[c].filter.kind = "like"
        /\ resolveCall[c].filter.columns = {"mlsareamajor"}

=============================================================================
